---- MODULE Spec2Model ----
(***************************************************************************)
(* Request -> Delivery -> completion lifecycle of the food-waste backend:  *)
(* the Express route handlers of backend/routes (deliveries, requests),    *)
(* the mongoose models they drive, and the periodic expiry job of the      *)
(* server.  Every `await` of a handler is one step, so handlers running    *)
(* on behalf of different HTTP requests interleave at their store reads    *)
(* and writes exactly as they do on the node event loop.                   *)
(***************************************************************************)
EXTENDS Integers, Sequences, FiniteSets, TLC

(* ------------------------------ bounds -------------------------------- *)
MaxTime == 10
MaxDeliveries == 2
MaxIssues == 6
MaxRatings == 2

(* ------------------------- program constants -------------------------- *)
ExpiryMinutes == 5
EstimateMinutes == 60
DefaultExtendMinutes == 5
RatingReward == 2
MaxRating == 5
BasePoints == 10
UrgentBonus == 15
HighBonus == 10
MediumBonus == 5
ExcellentBonus == 10
GoodBonus == 5
OnTimeBonus == 10
IssuePenalty == 2

(* ------------------------------ universe ------------------------------ *)
None == "none"
Ngos == {"n1", "n2"}
Donors == {"o1", "o2"}
Requesters == {"u1", "u2"}
Admins == {"admin"}
Users == Ngos \cup Donors \cup Requesters \cup Admins
DonationIds == {"d1", "d2"}
RequestIds == {"r1", "r2"}
Procs == {"p1", "p2"}
TickSteps == {ExpiryMinutes}
DonationExpiry == ExpiryMinutes
NoRating == 0
RatingChoices == {NoRating, 1, MaxRating}
ExtendChoices == {DefaultExtendMinutes}
ConditionChoices == {"excellent", "poor"}
PickupConditions == {"good"}
IssueTypes == {"food_quality"}
Reporters == {"n2", "u1", "admin"}

RoleOf(u) ==
  IF u \in Ngos THEN "ngo"
  ELSE IF u \in Donors THEN "donor"
  ELSE IF u \in Requesters THEN "requester"
  ELSE "admin"

(* status enumerations of the three schemas *)
DonationStatuses ==
  {"active", "assigned_to_ngo", "picked_up", "delivered", "expired", "cancelled"}
RequestStatuses ==
  {"pending", "accepted_by_donor", "accepted_by_ngo", "in_transit",
   "delivered", "expired", "cancelled"}
DeliveryStatuses ==
  {"assigned", "pickup_in_progress", "picked_up", "delivery_in_progress",
   "delivered", "failed", "cancelled"}
ActiveDeliveryStatuses ==
  {"assigned", "pickup_in_progress", "picked_up", "delivery_in_progress"}

VARIABLES
  now,        \* the wall clock read by `new Date()`, in minutes
  donation,   \* Donation collection: id -> document
  request,    \* Request collection: id -> document
  delivery,   \* Delivery collection: sequence of documents, index = _id
  points,     \* User.points
  totalDeliveries, \* User.totalDeliveries
  totalDonations,  \* User.totalDonations
  totalRequests,   \* User.totalRequests
  procs,      \* in-flight route handlers: position and in-memory documents
  awards,     \* history: number of `$inc points` issued for each Delivery
  everExpired,\* history: Requests whose stored status has been expired
  sink        \* the socket.io server behind `io.to(room).emit`: "up" or "faulty"

vars == <<now, donation, request, delivery, points, totalDeliveries,
          totalDonations, totalRequests, procs, awards, everExpired, sink>>

(* ------------------------------ documents ----------------------------- *)
(* The fields are the attributes the lifecycle reads and writes; mongoose's *)
(* createdAt/updatedAt bookkeeping and the free-text fields are left out. *)
NewDonation(owner) ==
  [status |-> "active", donor |-> owner, deliveryMethod |-> "ngo_pickup",
   assignedNGO |-> None, assignedRequester |-> None,
   expiryTime |-> DonationExpiry, rating |-> NoRating]

NewRequest(owner, urg, t) ==
  [status |-> "pending", requester |-> owner, urgency |-> urg,
   expiryTimestamp |-> t + ExpiryMinutes,
   acceptedByDonor |-> None, acceptedByNgo |-> None, assignedDonation |-> None,
   rating |-> NoRating]

NoTime == 0 - 1
SomeDate == "date"

PriorityOf(urg) ==
  IF urg = "critical" THEN "urgent" ELSE IF urg = "high" THEN "high" ELSE "medium"

(* an entry of Delivery.issues *)
Issue(ty, by) == [type |-> ty, reportedBy |-> by]

NewDelivery(n, don, req, d, r, t) ==
  [ngo |-> n, donor |-> don.donor, requester |-> req.requester,
   donation |-> d, request |-> r, deliveryStatus |-> "assigned",
   priority |-> PriorityOf(req.urgency), pickupConfirmedBy |-> None,
   atPickup |-> None, atDelivery |-> None,
   estimatedCompletionTime |-> t + EstimateMinutes,
   actualCompletionTime |-> NoTime,
   issues |-> <<>>, pointsEarned |-> 0, pointsAwarded |-> FALSE,
   requesterConfirmed |-> FALSE, cancelledBy |-> None, cancelledAt |-> NoTime,
   pickupTimeActual |-> None, donorRating |-> NoRating, ngoRating |-> NoRating]

(* a document that is not in its collection: find* returns null for it *)
NoDonation == [NewDonation(None) EXCEPT !.status = None]
NoRequest == [NewRequest(None, None, 0) EXCEPT !.status = None]
NoDelivery == NewDelivery(None, NoDonation, NoRequest, None, None, 0)

(* Request.isExpired(): new Date() > this.expiryTimestamp *)
isExpired(req, t) == t > req.expiryTimestamp

(* donationSchema.methods.isExpired; no route calls it *)
donationIsExpired(don, t) == t > don.expiryTime

(* Delivery.calculatePoints() *)
Max(a, b) == IF a >= b THEN a ELSE b

(* a calculatePoints that never looks at the clock *)
calculatePointsAlwaysOnTime(del) ==
  LET prio == IF del.priority = "urgent" THEN UrgentBonus
              ELSE IF del.priority = "high" THEN HighBonus
              ELSE IF del.priority = "medium" THEN MediumBonus ELSE 0
      cond == IF del.atDelivery = "excellent" THEN ExcellentBonus
              ELSE IF del.atDelivery = "good" THEN GoodBonus ELSE 0
  IN Max(0, BasePoints + prio + cond + OnTimeBonus - Len(del.issues) * IssuePenalty)

(* a calculatePoints that reads the condition recorded at pickup *)
calculatePointsAtPickup(del) ==
  LET prio == IF del.priority = "urgent" THEN UrgentBonus
              ELSE IF del.priority = "high" THEN HighBonus
              ELSE IF del.priority = "medium" THEN MediumBonus ELSE 0
      cond == IF del.atPickup = "excellent" THEN ExcellentBonus
              ELSE IF del.atPickup = "good" THEN GoodBonus ELSE 0
      time == IF del.actualCompletionTime # NoTime
                 /\ del.actualCompletionTime - del.estimatedCompletionTime <= 0
              THEN OnTimeBonus ELSE 0
  IN Max(0, BasePoints + prio + cond + time - Len(del.issues) * IssuePenalty)

calculatePoints(del) ==
  LET prio == IF del.priority = "urgent" THEN UrgentBonus
              ELSE IF del.priority = "high" THEN HighBonus
              ELSE IF del.priority = "medium" THEN MediumBonus ELSE 0
      cond == IF del.atDelivery = "excellent" THEN ExcellentBonus
              ELSE IF del.atDelivery = "good" THEN GoodBonus ELSE 0
      time == IF del.actualCompletionTime # NoTime
                 /\ del.actualCompletionTime - del.estimatedCompletionTime <= 0
              THEN OnTimeBonus ELSE 0
  IN Max(0, BasePoints + prio + cond + time - Len(del.issues) * IssuePenalty)

(* ------------------------------ handlers ------------------------------ *)
IdleProc ==
  [pc |-> "idle", op |-> None, actor |-> None, did |-> None, rid |-> None,
   del |-> 0, arg |-> None, mins |-> 0, mDon |-> NoDonation, mReq |-> NoRequest,
   mDel |-> NoDelivery, todo |-> {}, res |-> None,
   donorRating |-> NoRating, ngoRating |-> NoRating, populated |-> << >>]

(* the handler has sent its response: what it was called with and what it *)
(* answered stay visible until the request object is dropped             *)
Finished(pr, result) ==
  [IdleProc EXCEPT !.pc = "done", !.op = pr.op, !.actor = pr.actor,
                   !.did = pr.did, !.rid = pr.rid, !.del = pr.del, !.res = result]

(* the request object is dropped *)
(* The notification block that follows the last write of a route:        *)
(* `io.to(room).emit(...)` stands inside the route's try, so a throw     *)
(* reaches the route's catch and the answer is a 500.  sendEmail and     *)
(* sendSMS catch their own errors and the notifiers wrap them in a       *)
(* try/catch of their own, so a failed email or SMS changes nothing.     *)
SinkStates == {"up", "faulty"}

EmitOutcomes == IF sink = "faulty" THEN {"sent", "thrown"} ELSE {"sent"}

Answer(emit, result) == IF emit = "thrown" THEN "error" ELSE result

Notified(pr, emit, result) == Finished(pr, Answer(emit, result))

Return(p) ==
  /\ procs[p].pc = "done"
  /\ procs' = [procs EXCEPT ![p] = IdleProc]
  /\ UNCHANGED <<now, donation, request, delivery, points, totalDeliveries,
                 awards, everExpired,
                 totalDonations, totalRequests, sink>>

Begin(o, a, d, r, i) ==
  [IdleProc EXCEPT !.op = o, !.actor = a, !.did = d, !.rid = r, !.del = i]

Quiet == \A q \in Procs : procs[q].pc = "idle"

DeliveryIds == 1..Len(delivery)

(* the clock *)
Tick ==
  /\ \E dt \in TickSteps : now + dt <= MaxTime /\ now' = now + dt
  /\ UNCHANGED <<donation, request, delivery, points, totalDeliveries, procs,
                 awards, everExpired,
                 totalDonations, totalRequests, sink>>

(* Request.expireOldRequests / the setInterval job: one updateMany *)
(* an expiry job that looks at the expiryTimestamp alone *)
SweepAnyStatus(t) ==
  {r \in RequestIds : request[r].status # None /\ request[r].expiryTimestamp < t}

(* an expiry job that allows a Request one more default lifetime *)
SweepWithGrace(t) ==
  {r \in RequestIds : request[r].status = "pending"
                        /\ request[r].expiryTimestamp + ExpiryMinutes < t}

SweepTargets(t) ==
  {r \in RequestIds : request[r].status = "pending" /\ request[r].expiryTimestamp < t}

Sweep ==
  /\ request' = [r \in RequestIds |->
                   IF r \in SweepTargets(now)
                   THEN [request[r] EXCEPT !.status = "expired"]
                   ELSE request[r]]
  /\ everExpired' = everExpired \cup SweepTargets(now)
  /\ UNCHANGED <<now, donation, delivery, points, totalDeliveries, procs, awards,
                 totalDonations, totalRequests, sink>>

(* ---- POST /api/deliveries ---- *)
CreatesInFlight ==
  Cardinality({q \in Procs : procs[q].pc \in {"create_findRequest", "create_saveDelivery"}})

CreateFindDonation(p, n, d, r) ==
  /\ procs[p].pc = "idle"
  /\ LET pr == Begin("create", n, d, r, 0) IN
     IF donation[d].status # "active"
     THEN procs' = [procs EXCEPT ![p] = Finished(pr, "not_found")]
     ELSE procs' = [procs EXCEPT ![p] =
                      [pr EXCEPT !.pc = "create_findRequest", !.mDon = donation[d]]]
  /\ UNCHANGED <<now, donation, request, delivery, points, totalDeliveries,
                 awards, everExpired,
                 totalDonations, totalRequests, sink>>

(* a create that never looks at the Request's expiryTimestamp *)
CreateFindRequestNoExpiry(p) ==
  /\ procs[p].pc = "create_findRequest"
  /\ LET pr == procs[p]
         req == request[pr.rid] IN
     IF req.status # "pending"
     THEN procs' = [procs EXCEPT ![p] = Finished(pr, "not_found")]
     ELSE procs' = [procs EXCEPT ![p] =
                      [pr EXCEPT !.pc = "create_saveDelivery", !.mReq = req,
                         !.mDel = NewDelivery(pr.actor, pr.mDon, req, pr.did, pr.rid, now)]]
  /\ UNCHANGED <<now, donation, request, delivery, points, totalDeliveries,
                 awards, everExpired, totalDonations, totalRequests, sink>>

CreateFindRequest(p) ==
  /\ procs[p].pc = "create_findRequest"
  /\ LET pr == procs[p]
         req == request[pr.rid] IN
     IF req.status # "pending"
     THEN procs' = [procs EXCEPT ![p] = Finished(pr, "not_found")]
     ELSE IF isExpired(req, now)
     THEN procs' = [procs EXCEPT ![p] =
                      [pr EXCEPT !.pc = "create_saveExpired", !.mReq = req]]
     ELSE procs' = [procs EXCEPT ![p] =
                      [pr EXCEPT !.pc = "create_saveDelivery", !.mReq = req,
                         !.mDel = NewDelivery(pr.actor, pr.mDon, req, pr.did, pr.rid, now)]]
  /\ UNCHANGED <<now, donation, request, delivery, points, totalDeliveries,
                 awards, everExpired,
                 totalDonations, totalRequests, sink>>

CreateSaveExpired(p) ==
  /\ procs[p].pc = "create_saveExpired"
  /\ request' = [request EXCEPT ![procs[p].rid].status = "expired"]
  /\ everExpired' = everExpired \cup {procs[p].rid}
  /\ procs' = [procs EXCEPT ![p] = Finished(procs[p], "expired")]
  /\ UNCHANGED <<now, donation, delivery, points, totalDeliveries, awards,
                 totalDonations, totalRequests, sink>>

CreateSaveDelivery(p) ==
  /\ procs[p].pc = "create_saveDelivery"
  /\ delivery' = Append(delivery, procs[p].mDel)
  /\ awards' = Append(awards, 0)
  /\ procs' = [procs EXCEPT ![p].pc = "create_saveDonation",
                            ![p].del = Len(delivery) + 1]
  /\ UNCHANGED <<now, donation, request, points, totalDeliveries, everExpired,
                 totalDonations, totalRequests, sink>>

(* doc.save() of a document that was deleted since it was loaded: the    *)
(* update matches nothing; the mongoose release decides whether save()   *)
(* rejects with DocumentNotFoundError or resolves without writing        *)
SaveOfDeleted == {"rejects", "resolves"}

CreateSaveDonation(p) ==
  /\ procs[p].pc = "create_saveDonation"
  /\ LET pr == procs[p] IN
     IF donation[pr.did].status = None
     THEN /\ donation' = donation
          /\ \E o \in SaveOfDeleted :
               procs' = IF o = "rejects"
                        THEN [procs EXCEPT ![p] = Finished(pr, "error")]
                        ELSE [procs EXCEPT ![p].pc = "create_saveRequest"]
     ELSE /\ donation' = [donation EXCEPT ![pr.did] =
                            [@ EXCEPT !.status = "assigned_to_ngo",
                                      !.assignedNGO = pr.actor,
                                      !.assignedRequester = pr.mReq.requester]]
          /\ procs' = [procs EXCEPT ![p].pc = "create_saveRequest"]
  /\ UNCHANGED <<now, request, delivery, points, totalDeliveries, awards, everExpired,
                 totalDonations, totalRequests, sink>>

CreateSaveRequest(p) ==
  /\ procs[p].pc = "create_saveRequest"
  /\ LET pr == procs[p] IN
     IF request[pr.rid].status = None
     THEN /\ request' = request
          /\ \E o \in SaveOfDeleted :
               procs' = IF o = "rejects"
                        THEN [procs EXCEPT ![p] = Finished(pr, "error")]
                        ELSE [procs EXCEPT ![p].pc = "create_incTotal"]
     ELSE /\ request' = [request EXCEPT ![pr.rid] =
                           [@ EXCEPT !.status = "accepted_by_ngo",
                                     !.acceptedByNgo = pr.actor]]
          /\ procs' = [procs EXCEPT ![p].pc = "create_incTotal"]
  /\ UNCHANGED <<now, donation, delivery, points, totalDeliveries, awards, everExpired,
                 totalDonations, totalRequests, sink>>

CreateIncTotal(p) ==
  /\ procs[p].pc = "create_incTotal"
  /\ totalDeliveries' = [totalDeliveries EXCEPT ![procs[p].actor] = @ + 1]
  /\ \E e \in EmitOutcomes :
       procs' = [procs EXCEPT ![p] = Notified(procs[p], e, "created")]
  /\ UNCHANGED <<now, donation, request, delivery, points, awards, everExpired,
                 totalDonations, totalRequests, sink>>

CreateStart(p) ==
  \E n \in Ngos, d \in DonationIds, r \in RequestIds : CreateFindDonation(p, n, d, r)

CreateSteps(p) ==
  \/ CreateFindRequest(p)
  \/ CreateSaveExpired(p)
  \/ CreateSaveDelivery(p)
  \/ CreateSaveDonation(p)
  \/ CreateSaveRequest(p)
  \/ CreateIncTotal(p)

(* ---- PUT /api/deliveries/:id/start-pickup ---- *)
(* a start-pickup that only refuses a finished Delivery *)
StartPickupFindLate(p, n, i) ==
  /\ procs[p].pc = "idle"
  /\ LET pr == Begin("startPickup", n, None, None, i)
         del == delivery[i] IN
     IF del.ngo # n
     THEN procs' = [procs EXCEPT ![p] = Finished(pr, "forbidden")]
     ELSE IF del.deliveryStatus \in {"delivered", "cancelled"}
     THEN procs' = [procs EXCEPT ![p] = Finished(pr, "conflict")]
     ELSE procs' = [procs EXCEPT ![p] =
                      [pr EXCEPT !.pc = "startPickup_save",
                         !.mDel = [del EXCEPT !.deliveryStatus = "pickup_in_progress"]]]
  /\ UNCHANGED <<now, donation, request, delivery, points, totalDeliveries,
                 awards, everExpired,
                 totalDonations, totalRequests, sink>>

StartPickupFind(p, n, i) ==
  /\ procs[p].pc = "idle"
  /\ LET pr == Begin("startPickup", n, None, None, i)
         del == delivery[i] IN
     IF del.ngo # n
     THEN procs' = [procs EXCEPT ![p] = Finished(pr, "forbidden")]
     ELSE IF del.deliveryStatus # "assigned"
     THEN procs' = [procs EXCEPT ![p] = Finished(pr, "conflict")]
     ELSE procs' = [procs EXCEPT ![p] =
                      [pr EXCEPT !.pc = "startPickup_save",
                         !.mDel = [del EXCEPT !.deliveryStatus = "pickup_in_progress"]]]
  /\ UNCHANGED <<now, donation, request, delivery, points, totalDeliveries,
                 awards, everExpired,
                 totalDonations, totalRequests, sink>>

(* delivery.save(); the pre('save') hook stamps pickupTime.actual when   *)
(* the status changes to pickup_in_progress and no time is recorded yet. *)
(* The program reads pickupTime.actual only for its presence, so the     *)
(* field is None or SomeDate.                                            *)
(* a save that runs no pre('save') hook *)
StartPickupSaveNoHook(p) ==
  /\ procs[p].pc = "startPickup_save"
  /\ delivery' = [delivery EXCEPT ![procs[p].del].deliveryStatus =
                    procs[p].mDel.deliveryStatus]
  /\ \E e \in EmitOutcomes :
       procs' = [procs EXCEPT ![p] = Notified(procs[p], e, "ok")]
  /\ UNCHANGED <<now, donation, request, points, totalDeliveries, awards, everExpired,
                 totalDonations, totalRequests, sink>>

StartPickupSave(p) ==
  /\ procs[p].pc = "startPickup_save"
  /\ delivery' = [delivery EXCEPT ![procs[p].del] =
                    [@ EXCEPT !.deliveryStatus = procs[p].mDel.deliveryStatus,
                              !.pickupTimeActual =
                                 IF procs[p].mDel.pickupTimeActual = None
                                 THEN SomeDate ELSE @]]
  /\ \E e \in EmitOutcomes :
       procs' = [procs EXCEPT ![p] = Notified(procs[p], e, "ok")]
  /\ UNCHANGED <<now, donation, request, points, totalDeliveries, awards, everExpired,
                 totalDonations, totalRequests, sink>>

(* ---- PUT /api/deliveries/:id/complete-pickup ---- *)
CompletePickupFind(p, n, i, c) ==
  /\ procs[p].pc = "idle"
  /\ LET pr == [Begin("completePickup", n, None, None, i) EXCEPT !.arg = c]
         del == delivery[i] IN
     IF del.ngo # n
     THEN procs' = [procs EXCEPT ![p] = Finished(pr, "forbidden")]
     ELSE IF del.deliveryStatus # "pickup_in_progress"
     THEN procs' = [procs EXCEPT ![p] = Finished(pr, "conflict")]
     ELSE procs' = [procs EXCEPT ![p] =
                      [pr EXCEPT !.pc = "completePickup_savePickedUp",
                         !.mDel = [del EXCEPT !.deliveryStatus = "picked_up",
                                              !.pickupTimeActual = SomeDate,
                                              !.pickupConfirmedBy = n]]]
  /\ UNCHANGED <<now, donation, request, delivery, points, totalDeliveries,
                 awards, everExpired,
                 totalDonations, totalRequests, sink>>

(* Delivery.completePickup(): deliveryStatus = 'picked_up'; this.save() *)
CompletePickupSavePickedUp(p) ==
  /\ procs[p].pc = "completePickup_savePickedUp"
  /\ delivery' = [delivery EXCEPT ![procs[p].del] =
                    [@ EXCEPT !.deliveryStatus = procs[p].mDel.deliveryStatus,
                              !.pickupTimeActual = procs[p].mDel.pickupTimeActual,
                              !.pickupConfirmedBy = procs[p].mDel.pickupConfirmedBy]]
  /\ procs' = [procs EXCEPT ![p].pc = "completePickup_saveInProgress",
                            ![p].mDel.atPickup = procs[p].arg,
                            ![p].mDel.deliveryStatus = "delivery_in_progress"]
  /\ UNCHANGED <<now, donation, request, points, totalDeliveries, awards, everExpired,
                 totalDonations, totalRequests, sink>>

(* a second save that stores the condition and not the status *)
CompletePickupSaveConditionOnly(p) ==
  /\ procs[p].pc = "completePickup_saveInProgress"
  /\ delivery' = [delivery EXCEPT ![procs[p].del].atPickup = procs[p].mDel.atPickup]
  /\ procs' = [procs EXCEPT ![p].pc = "completePickup_updateDonation"]
  /\ UNCHANGED <<now, donation, request, points, totalDeliveries, awards, everExpired,
                 totalDonations, totalRequests, sink>>

CompletePickupSaveInProgress(p) ==
  /\ procs[p].pc = "completePickup_saveInProgress"
  /\ delivery' = [delivery EXCEPT ![procs[p].del] =
                    [@ EXCEPT !.deliveryStatus = procs[p].mDel.deliveryStatus,
                              !.atPickup = procs[p].mDel.atPickup]]
  /\ procs' = [procs EXCEPT ![p].pc = "completePickup_updateDonation"]
  /\ UNCHANGED <<now, donation, request, points, totalDeliveries, awards, everExpired,
                 totalDonations, totalRequests, sink>>

(* Model.findByIdAndUpdate(id, fields): no effect when the document is gone *)
UpdateDonationStatus(d, st) ==
  IF donation[d].status = None THEN donation
  ELSE [donation EXCEPT ![d].status = st]

UpdateRequestStatus(r, st) ==
  IF request[r].status = None THEN request
  ELSE [request EXCEPT ![r].status = st]

CompletePickupUpdateDonation(p) ==
  /\ procs[p].pc = "completePickup_updateDonation"
  /\ donation' = UpdateDonationStatus(procs[p].mDel.donation, "picked_up")
  /\ \E e \in EmitOutcomes :
       procs' = [procs EXCEPT ![p] = Notified(procs[p], e, "ok")]
  /\ UNCHANGED <<now, request, delivery, points, totalDeliveries, awards, everExpired,
                 totalDonations, totalRequests, sink>>

(* ---- PUT /api/deliveries/:id/complete-delivery ---- *)
(* Delivery.completeDelivery() stamps the times and freezes pointsEarned  *)
(* on the in-memory document before it issues the save                    *)
completeDelivery(del, cond, t) ==
  LET d1 == [del EXCEPT !.atDelivery = cond, !.deliveryStatus = "delivered",
                        !.actualCompletionTime = t]
  IN [d1 EXCEPT !.pointsEarned = calculatePoints(d1)]

CompleteDeliveryFind(p, n, i, cond) ==
  /\ procs[p].pc = "idle"
  /\ LET pr == Begin("completeDelivery", n, None, None, i)
         del == delivery[i] IN
     IF del.ngo # n
     THEN procs' = [procs EXCEPT ![p] = Finished(pr, "forbidden")]
     ELSE IF del.deliveryStatus # "delivery_in_progress"
     THEN procs' = [procs EXCEPT ![p] = Finished(pr, "conflict")]
     ELSE procs' = [procs EXCEPT ![p] =
                      [pr EXCEPT !.pc = "completeDelivery_save",
                         !.mDel = completeDelivery(del, cond, now)]]
  /\ UNCHANGED <<now, donation, request, delivery, points, totalDeliveries,
                 awards, everExpired,
                 totalDonations, totalRequests, sink>>

(* a completion that awards the points at once instead of deferring them *)
CompleteDeliverySaveAwarding(p) ==
  /\ procs[p].pc = "completeDelivery_save"
  /\ LET m == procs[p].mDel IN
     /\ delivery' = [delivery EXCEPT ![procs[p].del] =
                       [@ EXCEPT !.deliveryStatus = m.deliveryStatus,
                                 !.atDelivery = m.atDelivery,
                                 !.actualCompletionTime = m.actualCompletionTime,
                                 !.pointsEarned = m.pointsEarned]]
     /\ points' = [points EXCEPT ![m.ngo] = @ + m.pointsEarned]
  /\ procs' = [procs EXCEPT ![p].pc = "completeDelivery_cascade",
                            ![p].todo = {"donation", "request"}]
  /\ UNCHANGED <<now, donation, request, totalDeliveries, awards, everExpired,
                 totalDonations, totalRequests, sink>>

CompleteDeliverySave(p) ==
  /\ procs[p].pc = "completeDelivery_save"
  /\ LET m == procs[p].mDel IN
     delivery' = [delivery EXCEPT ![procs[p].del] =
                    [@ EXCEPT !.deliveryStatus = m.deliveryStatus,
                              !.atDelivery = m.atDelivery,
                              !.actualCompletionTime = m.actualCompletionTime,
                              !.pointsEarned = m.pointsEarned]]
  /\ procs' = [procs EXCEPT ![p].pc = "completeDelivery_cascade",
                            ![p].todo = {"donation", "request"}]
  /\ UNCHANGED <<now, donation, request, points, totalDeliveries, awards, everExpired,
                 totalDonations, totalRequests, sink>>

(* Promise.all([Donation.findByIdAndUpdate, Request.findByIdAndUpdate]):   *)
(* the two updates reach the store in either order                        *)
CascadeDone(p, what, result) ==
  IF procs[p].todo = {what}
  THEN [procs EXCEPT ![p] = Finished(procs[p], result)]
  ELSE [procs EXCEPT ![p].todo = @ \ {what}]

CompleteDeliveryUpdateDonation(p) ==
  /\ procs[p].pc = "completeDelivery_cascade"
  /\ "donation" \in procs[p].todo
  /\ donation' = UpdateDonationStatus(procs[p].mDel.donation, "delivered")
  /\ \E e \in EmitOutcomes : procs' = CascadeDone(p, "donation", Answer(e, "ok"))
  /\ UNCHANGED <<now, request, delivery, points, totalDeliveries, awards, everExpired,
                 totalDonations, totalRequests, sink>>

CompleteDeliveryUpdateRequest(p) ==
  /\ procs[p].pc = "completeDelivery_cascade"
  /\ "request" \in procs[p].todo
  /\ request' = UpdateRequestStatus(procs[p].mDel.request, "delivered")
  /\ \E e \in EmitOutcomes : procs' = CascadeDone(p, "request", Answer(e, "ok"))
  /\ UNCHANGED <<now, donation, delivery, points, totalDeliveries, awards, everExpired,
                 totalDonations, totalRequests, sink>>

(* ---- PUT /api/deliveries/:id/report-issue ---- *)
ReportIssueFind(p, a, i, ty) ==
  /\ procs[p].pc = "idle"
  /\ Len(delivery[i].issues) < MaxIssues
  /\ LET pr == [Begin("reportIssue", a, None, None, i) EXCEPT !.arg = ty]
         del == delivery[i]
         isInvolved == del.ngo = a \/ del.donor = a \/ del.requester = a IN
     IF ~isInvolved /\ RoleOf(a) # "admin"
     THEN procs' = [procs EXCEPT ![p] = Finished(pr, "forbidden")]
     ELSE procs' = [procs EXCEPT ![p] =
                      [pr EXCEPT !.pc = "reportIssue_save",
                         !.mDel = [del EXCEPT !.issues = Append(@, Issue(ty, a))]]]
  /\ UNCHANGED <<now, donation, request, delivery, points, totalDeliveries,
                 awards, everExpired, totalDonations, totalRequests, sink>>

(* a report-issue that scores the Delivery again after the push *)
ReportIssueSaveRescore(p) ==
  /\ procs[p].pc = "reportIssue_save"
  /\ LET i == procs[p].del
         pushed == [delivery[i] EXCEPT
                      !.issues = Append(@, Issue(procs[p].arg, procs[p].actor))] IN
     delivery' = [delivery EXCEPT ![i] =
                    [pushed EXCEPT !.pointsEarned = calculatePoints(pushed)]]
  /\ procs' = [procs EXCEPT ![p].pc = "reportIssue_findAdmins"]
  /\ UNCHANGED <<now, donation, request, points, totalDeliveries, awards, everExpired,
                 totalDonations, totalRequests, sink>>

(* delivery.save() after issues.push(): a $push of the new entry *)
ReportIssueSave(p) ==
  /\ procs[p].pc = "reportIssue_save"
  /\ delivery' = [delivery EXCEPT ![procs[p].del].issues =
                                     Append(@, Issue(procs[p].arg, procs[p].actor))]
  /\ procs' = [procs EXCEPT ![p].pc = "reportIssue_findAdmins"]
  /\ UNCHANGED <<now, donation, request, points, totalDeliveries, awards, everExpired,
                 totalDonations, totalRequests, sink>>

(* User.find({ role: 'admin' }), the emits, the response *)
ReportIssueNotify(p) ==
  /\ procs[p].pc = "reportIssue_findAdmins"
  /\ \E e \in EmitOutcomes :
       procs' = [procs EXCEPT ![p] = Notified(procs[p], e, "ok")]
  /\ UNCHANGED <<now, donation, request, delivery, points, totalDeliveries,
                 awards, everExpired, totalDonations, totalRequests, sink>>

(* ---- PUT /api/deliveries/:id/confirm-receipt ---- *)
(* a confirm-receipt without the early answer for a confirmed Delivery *)
ConfirmFindAgain(p, u, i) ==
  /\ procs[p].pc = "idle"
  /\ LET pr == Begin("confirmReceipt", u, None, None, i)
         del == delivery[i] IN
     IF del.requester # u
     THEN procs' = [procs EXCEPT ![p] = Finished(pr, "forbidden")]
     ELSE IF del.deliveryStatus # "delivered"
     THEN procs' = [procs EXCEPT ![p] = Finished(pr, "conflict")]
     ELSE procs' = [procs EXCEPT ![p] =
                      [pr EXCEPT !.pc = "confirm_saveConfirmed",
                         !.mDel = [del EXCEPT !.requesterConfirmed = TRUE]]]
  /\ UNCHANGED <<now, donation, request, delivery, points, totalDeliveries,
                 awards, everExpired,
                 totalDonations, totalRequests, sink>>

ConfirmFind(p, u, i) ==
  /\ procs[p].pc = "idle"
  /\ LET pr == Begin("confirmReceipt", u, None, None, i)
         del == delivery[i] IN
     IF del.requester # u
     THEN procs' = [procs EXCEPT ![p] = Finished(pr, "forbidden")]
     ELSE IF del.deliveryStatus # "delivered"
     THEN procs' = [procs EXCEPT ![p] = Finished(pr, "conflict")]
     ELSE IF del.requesterConfirmed /\ del.pointsAwarded
     THEN procs' = [procs EXCEPT ![p] = Finished(pr, "already_confirmed")]
     ELSE procs' = [procs EXCEPT ![p] =
                      [pr EXCEPT !.pc = "confirm_saveConfirmed",
                         !.mDel = [del EXCEPT !.requesterConfirmed = TRUE]]]
  /\ UNCHANGED <<now, donation, request, delivery, points, totalDeliveries,
                 awards, everExpired,
                 totalDonations, totalRequests, sink>>

ConfirmSaveConfirmed(p) ==
  /\ procs[p].pc = "confirm_saveConfirmed"
  /\ delivery' = [delivery EXCEPT ![procs[p].del].requesterConfirmed = TRUE]
  /\ \E e \in EmitOutcomes :
       procs' = IF ~procs[p].mDel.pointsAwarded
                THEN [procs EXCEPT ![p].pc = "confirm_incPoints"]
                ELSE [procs EXCEPT ![p] = Notified(procs[p], e, "ok")]
  /\ UNCHANGED <<now, donation, request, points, totalDeliveries, awards, everExpired,
                 totalDonations, totalRequests, sink>>

ConfirmIncPoints(p) ==
  /\ procs[p].pc = "confirm_incPoints"
  /\ points' = [points EXCEPT ![procs[p].mDel.ngo] = @ + procs[p].mDel.pointsEarned]
  /\ awards' = [awards EXCEPT ![procs[p].del] = @ + 1]
  /\ procs' = [procs EXCEPT ![p].pc = "confirm_saveAwarded",
                            ![p].mDel.pointsAwarded = TRUE]
  /\ UNCHANGED <<now, donation, request, delivery, totalDeliveries, everExpired,
                 totalDonations, totalRequests, sink>>

ConfirmSaveAwarded(p) ==
  /\ procs[p].pc = "confirm_saveAwarded"
  /\ delivery' = [delivery EXCEPT ![procs[p].del].pointsAwarded = TRUE]
  /\ \E e \in EmitOutcomes :
       procs' = [procs EXCEPT ![p] = Notified(procs[p], e, "ok")]
  /\ UNCHANGED <<now, donation, request, points, totalDeliveries, awards, everExpired,
                 totalDonations, totalRequests, sink>>

(* ---- PUT /api/deliveries/:id/cancel ---- *)
(* a cancel that does not look at deliveryStatus *)
CancelFindAnyStatus(p, a, i) ==
  /\ procs[p].pc = "idle"
  /\ LET pr == Begin("cancel", a, None, None, i)
         del == delivery[i]
         canCancel == RoleOf(a) = "admin" \/ (RoleOf(a) = "ngo" /\ del.ngo = a) IN
     IF ~canCancel
     THEN procs' = [procs EXCEPT ![p] = Finished(pr, "forbidden")]
     ELSE procs' = [procs EXCEPT ![p] =
                      [pr EXCEPT !.pc = "cancel_save",
                         !.mDel = [del EXCEPT !.deliveryStatus = "cancelled",
                                              !.cancelledBy = a]]]
  /\ UNCHANGED <<now, donation, request, delivery, points, totalDeliveries,
                 awards, everExpired,
                 totalDonations, totalRequests, sink>>

CancelFind(p, a, i) ==
  /\ procs[p].pc = "idle"
  /\ LET pr == Begin("cancel", a, None, None, i)
         del == delivery[i]
         canCancel == RoleOf(a) = "admin" \/ (RoleOf(a) = "ngo" /\ del.ngo = a) IN
     IF ~canCancel
     THEN procs' = [procs EXCEPT ![p] = Finished(pr, "forbidden")]
     ELSE IF del.deliveryStatus \in {"delivered", "cancelled"}
     THEN procs' = [procs EXCEPT ![p] = Finished(pr, "conflict")]
     ELSE procs' = [procs EXCEPT ![p] =
                      [pr EXCEPT !.pc = "cancel_save",
                         !.mDel = [del EXCEPT !.deliveryStatus = "cancelled",
                                              !.cancelledBy = a]]]
  /\ UNCHANGED <<now, donation, request, delivery, points, totalDeliveries,
                 awards, everExpired,
                 totalDonations, totalRequests, sink>>

CancelSave(p) ==
  /\ procs[p].pc = "cancel_save"
  /\ delivery' = [delivery EXCEPT ![procs[p].del] =
                    [@ EXCEPT !.deliveryStatus = procs[p].mDel.deliveryStatus,
                              !.cancelledBy = procs[p].mDel.cancelledBy]]
  /\ procs' = [procs EXCEPT ![p].pc = "cancel_cascade",
                            ![p].todo = {"donation", "request"}]
  /\ UNCHANGED <<now, donation, request, points, totalDeliveries, awards, everExpired,
                 totalDonations, totalRequests, sink>>

(* a cancel that releases the Donation but keeps its assignee *)
CancelKeepAssignee(p) ==
  /\ procs[p].pc = "cancel_cascade"
  /\ "donation" \in procs[p].todo
  /\ LET d == procs[p].mDel.donation IN
     donation' = IF donation[d].status = None THEN donation
                 ELSE [donation EXCEPT ![d] =
                         [@ EXCEPT !.status = "active", !.assignedNGO = None]]
  /\ \E e \in EmitOutcomes : procs' = CascadeDone(p, "donation", Answer(e, "ok"))
  /\ UNCHANGED <<now, request, delivery, points, totalDeliveries, awards, everExpired,
                 totalDonations, totalRequests, sink>>

CancelResetDonation(p) ==
  /\ procs[p].pc = "cancel_cascade"
  /\ "donation" \in procs[p].todo
  /\ LET d == procs[p].mDel.donation IN
     donation' = IF donation[d].status = None THEN donation
                 ELSE [donation EXCEPT ![d] =
                         [@ EXCEPT !.status = "active", !.assignedNGO = None,
                                   !.assignedRequester = None]]
  /\ \E e \in EmitOutcomes : procs' = CascadeDone(p, "donation", Answer(e, "ok"))
  /\ UNCHANGED <<now, request, delivery, points, totalDeliveries, awards, everExpired,
                 totalDonations, totalRequests, sink>>

CancelResetRequest(p) ==
  /\ procs[p].pc = "cancel_cascade"
  /\ "request" \in procs[p].todo
  /\ LET r == procs[p].mDel.request IN
     request' = IF request[r].status = None THEN request
                ELSE [request EXCEPT ![r] =
                        [@ EXCEPT !.status = "pending", !.acceptedByNgo = None]]
  /\ \E e \in EmitOutcomes : procs' = CascadeDone(p, "request", Answer(e, "ok"))
  /\ UNCHANGED <<now, donation, delivery, points, totalDeliveries, awards, everExpired,
                 totalDonations, totalRequests, sink>>

(* ---- PUT /api/requests/:id/accept ---- *)
AcceptFind(p, a, r, d) ==
  /\ procs[p].pc = "idle"
  /\ LET pr == Begin("accept", a, d, r, 0)
         req == request[r] IN
     IF req.status = None
     THEN procs' = [procs EXCEPT ![p] = Finished(pr, "not_found")]
     ELSE IF req.status # "pending"
     THEN procs' = [procs EXCEPT ![p] = Finished(pr, "conflict")]
     ELSE IF isExpired(req, now)
     THEN procs' = [procs EXCEPT ![p] =
                      [pr EXCEPT !.pc = "accept_saveExpired", !.mReq = req]]
     ELSE IF RoleOf(a) = "donor" /\ d = None
     THEN procs' = [procs EXCEPT ![p] = Finished(pr, "bad_request")]
     ELSE IF RoleOf(a) = "donor"
     THEN procs' = [procs EXCEPT ![p] =
                      [pr EXCEPT !.pc = "accept_findDonation", !.mReq = req]]
     ELSE procs' = [procs EXCEPT ![p] =
                      [pr EXCEPT !.pc = "accept_saveRequest",
                         !.mReq = [req EXCEPT !.status = "accepted_by_ngo",
                                              !.acceptedByNgo = a]]]
  /\ UNCHANGED <<now, donation, request, delivery, points, totalDeliveries,
                 awards, everExpired,
                 totalDonations, totalRequests, sink>>

AcceptSaveExpired(p) ==
  /\ procs[p].pc = "accept_saveExpired"
  /\ request' = [request EXCEPT ![procs[p].rid].status = "expired"]
  /\ everExpired' = everExpired \cup {procs[p].rid}
  /\ procs' = [procs EXCEPT ![p] = Finished(procs[p], "expired")]
  /\ UNCHANGED <<now, donation, delivery, points, totalDeliveries, awards,
                 totalDonations, totalRequests, sink>>

AcceptFindDonation(p) ==
  /\ procs[p].pc = "accept_findDonation"
  /\ LET pr == procs[p]
         don == donation[pr.did] IN
     IF don.status # "active" \/ don.donor # pr.actor
     THEN procs' = [procs EXCEPT ![p] = Finished(pr, "not_found")]
     ELSE procs' = [procs EXCEPT ![p] =
                      [pr EXCEPT !.pc = "accept_saveDonation",
                         !.mReq = [pr.mReq EXCEPT !.status = "accepted_by_donor",
                                                  !.acceptedByDonor = pr.actor,
                                                  !.assignedDonation = pr.did],
                         !.mDon = [don EXCEPT !.assignedRequester = pr.mReq.requester,
                                              !.status = "assigned_to_requester"]]]
  /\ UNCHANGED <<now, donation, request, delivery, points, totalDeliveries,
                 awards, everExpired,
                 totalDonations, totalRequests, sink>>

(* a Donation schema whose validators let every status through *)
DonationValidAny(don) == don.status # None

(* donation.save() runs the schema validators: a status outside the enum  *)
(* of the Donation schema, or a missing assignedNGO on an ngo_pickup      *)
(* Donation that is no longer active, rejects the save, and the handler's *)
(* catch answers 500 before anything else is written                      *)
DonationValid(don) ==
  /\ don.status \in DonationStatuses
  /\ (don.deliveryMethod = "ngo_pickup" /\ don.status # "active")
       => don.assignedNGO # None

AcceptSaveDonation(p) ==
  /\ procs[p].pc = "accept_saveDonation"
  /\ LET pr == procs[p] IN
     IF DonationValid(pr.mDon)
     THEN /\ donation' = [donation EXCEPT ![pr.did] =
                            [@ EXCEPT !.status = pr.mDon.status,
                                      !.assignedRequester = pr.mDon.assignedRequester]]
          /\ procs' = [procs EXCEPT ![p].pc = "accept_saveRequest"]
     ELSE /\ donation' = donation
          /\ procs' = [procs EXCEPT ![p] = Finished(pr, "error")]
  /\ UNCHANGED <<now, request, delivery, points, totalDeliveries, awards, everExpired,
                 totalDonations, totalRequests, sink>>

AcceptSaveRequest(p) ==
  /\ procs[p].pc = "accept_saveRequest"
  /\ LET m == procs[p].mReq IN
     request' = [request EXCEPT ![procs[p].rid] =
                   IF RoleOf(procs[p].actor) = "donor"
                   THEN [@ EXCEPT !.status = m.status,
                                  !.acceptedByDonor = m.acceptedByDonor,
                                  !.assignedDonation = m.assignedDonation]
                   ELSE [@ EXCEPT !.status = m.status,
                                  !.acceptedByNgo = m.acceptedByNgo]]
  /\ \E e \in EmitOutcomes :
       procs' = [procs EXCEPT ![p] = Notified(procs[p], e, "ok")]
  /\ UNCHANGED <<now, donation, delivery, points, totalDeliveries, awards, everExpired,
                 totalDonations, totalRequests, sink>>

(* ---- PUT /api/requests/:id/extend ---- *)
(* an extend that pushes the expiry out before it looks at the status *)
ExtendFindEager(p, a, r, m) ==
  /\ procs[p].pc = "idle"
  /\ request[r].expiryTimestamp + m <= MaxTime
  /\ LET pr == [Begin("extend", a, None, r, 0) EXCEPT !.mins = m]
         req == request[r]
         canExtend == RoleOf(a) = "admin"
                        \/ (RoleOf(a) = "requester" /\ req.requester = a) IN
     IF req.status = None
     THEN /\ procs' = [procs EXCEPT ![p] = Finished(pr, "not_found")]
          /\ request' = request
     ELSE IF ~canExtend
     THEN /\ procs' = [procs EXCEPT ![p] = Finished(pr, "forbidden")]
          /\ request' = request
     ELSE IF req.status # "pending"
     THEN /\ procs' = [procs EXCEPT ![p] = Finished(pr, "conflict")]
          /\ request' = [request EXCEPT ![r].expiryTimestamp = @ + m]
     ELSE /\ procs' = [procs EXCEPT ![p] =
                         [pr EXCEPT !.pc = "extend_save",
                            !.mReq = [req EXCEPT !.expiryTimestamp = @ + m]]]
          /\ request' = request
  /\ UNCHANGED <<now, donation, delivery, points, totalDeliveries,
                 awards, everExpired, totalDonations, totalRequests, sink>>

ExtendFind(p, a, r, m) ==
  /\ procs[p].pc = "idle"
  /\ request[r].expiryTimestamp + m <= MaxTime
  /\ LET pr == [Begin("extend", a, None, r, 0) EXCEPT !.mins = m]
         req == request[r]
         canExtend == RoleOf(a) = "admin"
                        \/ (RoleOf(a) = "requester" /\ req.requester = a) IN
     IF req.status = None
     THEN procs' = [procs EXCEPT ![p] = Finished(pr, "not_found")]
     ELSE IF ~canExtend
     THEN procs' = [procs EXCEPT ![p] = Finished(pr, "forbidden")]
     ELSE IF req.status # "pending"
     THEN procs' = [procs EXCEPT ![p] = Finished(pr, "conflict")]
     ELSE procs' = [procs EXCEPT ![p] =
                      [pr EXCEPT !.pc = "extend_save",
                         !.mReq = [req EXCEPT !.expiryTimestamp = @ + m]]]
  /\ UNCHANGED <<now, donation, request, delivery, points, totalDeliveries,
                 awards, everExpired,
                 totalDonations, totalRequests, sink>>

(* Request.extendExpiry(): this.save() writes the new expiryTimestamp *)
ExtendSave(p) ==
  /\ procs[p].pc = "extend_save"
  /\ request' = [request EXCEPT ![procs[p].rid].expiryTimestamp =
                                   procs[p].mReq.expiryTimestamp]
  /\ procs' = [procs EXCEPT ![p] = Finished(procs[p], "ok")]
  /\ UNCHANGED <<now, donation, delivery, points, totalDeliveries, awards, everExpired,
                 totalDonations, totalRequests, sink>>

(* ---- PUT /api/requests/:id/cancel ---- *)
RequestCancelFind(p, a, r) ==
  /\ procs[p].pc = "idle"
  /\ LET pr == Begin("requestCancel", a, None, r, 0)
         req == request[r] IN
     IF req.status = None
     THEN procs' = [procs EXCEPT ![p] = Finished(pr, "not_found")]
     ELSE IF req.requester # a
     THEN procs' = [procs EXCEPT ![p] = Finished(pr, "forbidden")]
     ELSE IF req.status \in {"delivered", "cancelled", "expired"}
     THEN procs' = [procs EXCEPT ![p] = Finished(pr, "conflict")]
     ELSE procs' = [procs EXCEPT ![p] =
                      [pr EXCEPT !.pc = "requestCancel_save",
                         !.mReq = [req EXCEPT !.status = "cancelled"]]]
  /\ UNCHANGED <<now, donation, request, delivery, points, totalDeliveries,
                 awards, everExpired,
                 totalDonations, totalRequests, sink>>

RequestCancelSave(p) ==
  /\ procs[p].pc = "requestCancel_save"
  /\ request' = [request EXCEPT ![procs[p].rid].status = procs[p].mReq.status]
  /\ \E e \in (IF procs[p].mReq.acceptedByDonor # None \/ procs[p].mReq.acceptedByNgo # None
                THEN EmitOutcomes ELSE {"sent"}) :
       procs' = [procs EXCEPT ![p] = Notified(procs[p], e, "ok")]
  /\ UNCHANGED <<now, donation, delivery, points, totalDeliveries, awards, everExpired,
                 totalDonations, totalRequests, sink>>

(* ---- PUT /api/donations/:id/cancel ---- *)
DonationCancelFind(p, a, d) ==
  /\ procs[p].pc = "idle"
  /\ LET pr == Begin("donationCancel", a, d, None, 0)
         don == donation[d] IN
     IF don.status = None
     THEN procs' = [procs EXCEPT ![p] = Finished(pr, "not_found")]
     ELSE IF don.donor # a
     THEN procs' = [procs EXCEPT ![p] = Finished(pr, "forbidden")]
     ELSE IF don.status \in {"delivered", "cancelled", "expired"}
     THEN procs' = [procs EXCEPT ![p] = Finished(pr, "conflict")]
     ELSE procs' = [procs EXCEPT ![p] =
                      [pr EXCEPT !.pc = "donationCancel_save",
                         !.mDon = [don EXCEPT !.status = "cancelled"]]]
  /\ UNCHANGED <<now, donation, request, delivery, points, totalDeliveries,
                 awards, everExpired,
                 totalDonations, totalRequests, sink>>

DonationCancelSave(p) ==
  /\ procs[p].pc = "donationCancel_save"
  /\ LET pr == procs[p] IN
     IF DonationValid(pr.mDon)
     THEN /\ donation' = [donation EXCEPT ![pr.did].status = pr.mDon.status]
          /\ \E e \in (IF pr.mDon.assignedNGO # None THEN EmitOutcomes ELSE {"sent"}) :
               procs' = [procs EXCEPT ![p] = Notified(pr, e, "ok")]
     ELSE /\ donation' = donation
          /\ procs' = [procs EXCEPT ![p] = Finished(pr, "error")]
  /\ UNCHANGED <<now, request, delivery, points, totalDeliveries, awards, everExpired,
                 totalDonations, totalRequests, sink>>

(* ---- PUT /api/donations/:id/assign-ngo ---- *)
AssignNgoFind(p, a, d, n) ==
  /\ procs[p].pc = "idle"
  /\ LET pr == [Begin("assignNgo", a, d, None, 0) EXCEPT !.arg = n]
         don == donation[d] IN
     IF don.status = None
     THEN procs' = [procs EXCEPT ![p] = Finished(pr, "not_found")]
     ELSE IF don.donor # a
     THEN procs' = [procs EXCEPT ![p] = Finished(pr, "forbidden")]
     ELSE IF don.status # "active"
     THEN procs' = [procs EXCEPT ![p] = Finished(pr, "conflict")]
     ELSE procs' = [procs EXCEPT ![p] =
                      [pr EXCEPT !.pc = "assignNgo_findNgo", !.mDon = don]]
  /\ UNCHANGED <<now, donation, request, delivery, points, totalDeliveries,
                 awards, everExpired, totalDonations, totalRequests, sink>>

(* User.findOne({_id: ngoId, role: 'ngo', isApproved: true, isActive: true}) *)
AssignNgoFindNgo(p) ==
  /\ procs[p].pc = "assignNgo_findNgo"
  /\ LET pr == procs[p] IN
     IF RoleOf(pr.arg) # "ngo"
     THEN procs' = [procs EXCEPT ![p] = Finished(pr, "not_found")]
     ELSE procs' = [procs EXCEPT ![p] =
                      [pr EXCEPT !.pc = "assignNgo_save",
                         !.mDon = [pr.mDon EXCEPT !.assignedNGO = pr.arg,
                                                  !.status = "assigned_to_ngo"]]]
  /\ UNCHANGED <<now, donation, request, delivery, points, totalDeliveries,
                 awards, everExpired, totalDonations, totalRequests, sink>>

AssignNgoSave(p) ==
  /\ procs[p].pc = "assignNgo_save"
  /\ LET pr == procs[p] IN
     IF DonationValid(pr.mDon) /\ donation[pr.did].status # None
     THEN /\ donation' = [donation EXCEPT ![pr.did] =
                            [@ EXCEPT !.status = pr.mDon.status,
                                      !.assignedNGO = pr.mDon.assignedNGO]]
          /\ \E e \in EmitOutcomes :
               procs' = [procs EXCEPT ![p] = Notified(pr, e, "ok")]
     ELSE /\ donation' = donation
          /\ procs' = [procs EXCEPT ![p] = Finished(pr, "error")]
  /\ UNCHANGED <<now, request, delivery, points, totalDeliveries, awards, everExpired,
                 totalDonations, totalRequests, sink>>

(* ---- DELETE /api/donations/:id ---- *)
DonationDeleteFind(p, a, d) ==
  /\ procs[p].pc = "idle"
  /\ LET pr == Begin("donationDelete", a, d, None, 0)
         don == donation[d] IN
     IF don.status = None
     THEN procs' = [procs EXCEPT ![p] = Finished(pr, "not_found")]
     ELSE IF don.donor # a
     THEN procs' = [procs EXCEPT ![p] = Finished(pr, "forbidden")]
     ELSE IF don.status # "active"
     THEN procs' = [procs EXCEPT ![p] = Finished(pr, "conflict")]
     ELSE procs' = [procs EXCEPT ![p] = [pr EXCEPT !.pc = "donationDelete_remove"]]
  /\ UNCHANGED <<now, donation, request, delivery, points, totalDeliveries,
                 awards, everExpired, totalDonations, totalRequests, sink>>

DonationDeleteRemove(p) ==
  /\ procs[p].pc = "donationDelete_remove"
  /\ donation' = [donation EXCEPT ![procs[p].did] = NoDonation]
  /\ procs' = [procs EXCEPT ![p].pc = "donationDelete_dec"]
  /\ UNCHANGED <<now, request, delivery, points, totalDeliveries, awards, everExpired,
                 totalDonations, totalRequests, sink>>

DonationDeleteDec(p) ==
  /\ procs[p].pc = "donationDelete_dec"
  /\ totalDonations' = [totalDonations EXCEPT ![procs[p].actor] = @ - 1]
  /\ procs' = [procs EXCEPT ![p] = Finished(procs[p], "ok")]
  /\ UNCHANGED <<now, donation, request, delivery, points, totalDeliveries, awards,
                 everExpired, totalRequests, sink>>

(* ---- DELETE /api/requests/:id ---- *)
RequestDeleteFind(p, a, r) ==
  /\ procs[p].pc = "idle"
  /\ LET pr == Begin("requestDelete", a, None, r, 0)
         req == request[r] IN
     IF req.status = None
     THEN procs' = [procs EXCEPT ![p] = Finished(pr, "not_found")]
     ELSE IF req.requester # a
     THEN procs' = [procs EXCEPT ![p] = Finished(pr, "forbidden")]
     ELSE IF req.status # "pending"
     THEN procs' = [procs EXCEPT ![p] = Finished(pr, "conflict")]
     ELSE procs' = [procs EXCEPT ![p] = [pr EXCEPT !.pc = "requestDelete_remove"]]
  /\ UNCHANGED <<now, donation, request, delivery, points, totalDeliveries,
                 awards, everExpired, totalDonations, totalRequests, sink>>

RequestDeleteRemove(p) ==
  /\ procs[p].pc = "requestDelete_remove"
  /\ request' = [request EXCEPT ![procs[p].rid] = NoRequest]
  /\ procs' = [procs EXCEPT ![p].pc = "requestDelete_dec"]
  /\ UNCHANGED <<now, donation, delivery, points, totalDeliveries, awards, everExpired,
                 totalDonations, totalRequests, sink>>

RequestDeleteDec(p) ==
  /\ procs[p].pc = "requestDelete_dec"
  /\ totalRequests' = [totalRequests EXCEPT ![procs[p].actor] = @ - 1]
  /\ procs' = [procs EXCEPT ![p] = Finished(procs[p], "ok")]
  /\ UNCHANGED <<now, donation, request, delivery, points, totalDeliveries, awards,
                 everExpired, totalDonations, sink>>

(* ---- POST /api/ratings/delivery/:id ---- *)
(* requireRole('requester') lets only requesters reach the handler.  A    *)
(* rating absent from the body is NoRating.                               *)
RateBegin(a, i, dr, nr) ==
  [Begin("rate", a, None, None, i) EXCEPT !.donorRating = dr, !.ngoRating = nr]

(* .populate('donor', 'points').populate('ngo', 'points')                 *)
(* .populate('requester', 'points'): the points read with the Delivery    *)
Populate(del) == [u \in {del.donor, del.ngo, del.requester} |-> points[u]]

(* a rating route that does not look at deliveryStatus *)
RateFindAnyStatus(p, a, i, dr, nr) ==
  /\ procs[p].pc = "idle"
  /\ LET pr == RateBegin(a, i, dr, nr)
         del == delivery[i] IN
     IF del.requester # a
     THEN procs' = [procs EXCEPT ![p] = Finished(pr, "forbidden")]
     ELSE procs' = [procs EXCEPT ![p] =
                      [pr EXCEPT !.pc = "rate_save", !.mDel = del,
                                 !.populated = Populate(del)]]
  /\ UNCHANGED <<now, donation, request, delivery, points, totalDeliveries,
                 awards, everExpired,
                 totalDonations, totalRequests, sink>>

RateFind(p, a, i, dr, nr) ==
  /\ procs[p].pc = "idle"
  /\ LET pr == RateBegin(a, i, dr, nr)
         del == delivery[i] IN
     IF del.requester # a
     THEN procs' = [procs EXCEPT ![p] = Finished(pr, "forbidden")]
     ELSE IF del.deliveryStatus # "delivered"
     THEN procs' = [procs EXCEPT ![p] = Finished(pr, "conflict")]
     ELSE procs' = [procs EXCEPT ![p] =
                      [pr EXCEPT !.pc = "rate_save", !.mDel = del,
                                 !.populated = Populate(del)]]
  /\ UNCHANGED <<now, donation, request, delivery, points, totalDeliveries,
                 awards, everExpired,
                 totalDonations, totalRequests, sink>>

(* the $inc operations collected in `ops` *)
RateOps(pr) ==
  (IF pr.donorRating # NoRating THEN {"donor"} ELSE {})
    \cup (IF pr.ngoRating # NoRating THEN {"ngo"} ELSE {})
    \cup {"requester"}

RateAfterSave(pr) ==
  IF pr.donorRating # NoRating THEN [pr EXCEPT !.pc = "rate_updateDonation"]
  ELSE IF pr.ngoRating # NoRating THEN [pr EXCEPT !.pc = "rate_updateRequest"]
  ELSE [pr EXCEPT !.pc = "rate_award", !.todo = RateOps(pr)]

(* delivery.save(): ratings.fromRequester.donorRating and .ngoRating are  *)
(* not paths of the Delivery schema (it declares rating and feedback), so *)
(* the strict schema stores nothing of them.                              *)
RateSave(p) ==
  /\ procs[p].pc = "rate_save"
  /\ procs' = [procs EXCEPT ![p] = RateAfterSave(procs[p])]
  /\ UNCHANGED <<now, donation, request, delivery, points, totalDeliveries,
                 awards, everExpired,
                 totalDonations, totalRequests, sink>>

RateUpdateDonation(p) ==
  /\ procs[p].pc = "rate_updateDonation"
  /\ LET pr == procs[p]
         d == pr.mDel.donation IN
     /\ donation' = IF donation[d].status = None THEN donation
                    ELSE [donation EXCEPT ![d].rating = pr.donorRating]
     /\ procs' = [procs EXCEPT ![p] =
                    IF pr.ngoRating # NoRating
                    THEN [pr EXCEPT !.pc = "rate_updateRequest"]
                    ELSE [pr EXCEPT !.pc = "rate_award", !.todo = RateOps(pr)]]
  /\ UNCHANGED <<now, request, delivery, points, totalDeliveries, awards, everExpired,
                 totalDonations, totalRequests, sink>>

RateUpdateRequest(p) ==
  /\ procs[p].pc = "rate_updateRequest"
  /\ LET pr == procs[p]
         r == pr.mDel.request IN
     /\ request' = IF request[r].status = None THEN request
                   ELSE [request EXCEPT ![r].rating = pr.ngoRating]
     /\ procs' = [procs EXCEPT ![p] =
                    [pr EXCEPT !.pc = "rate_award", !.todo = RateOps(pr)]]
  /\ UNCHANGED <<now, donation, delivery, points, totalDeliveries, awards, everExpired,
                 totalDonations, totalRequests, sink>>

(* Promise.all(ops): the $inc operations complete in any order *)
RateOpDone(p, what) ==
  IF procs[p].todo = {what}
  THEN [procs EXCEPT ![p].pc = "rate_notify", ![p].todo = {}]
  ELSE [procs EXCEPT ![p].todo = @ \ {what}]

RateIncDonor(p) ==
  /\ procs[p].pc = "rate_award"
  /\ "donor" \in procs[p].todo
  /\ points' = [points EXCEPT ![procs[p].mDel.donor] = @ + procs[p].donorRating]
  /\ procs' = RateOpDone(p, "donor")
  /\ UNCHANGED <<now, donation, request, delivery, totalDeliveries, awards, everExpired,
                 totalDonations, totalRequests, sink>>

RateIncNgo(p) ==
  /\ procs[p].pc = "rate_award"
  /\ "ngo" \in procs[p].todo
  /\ points' = [points EXCEPT ![procs[p].mDel.ngo] = @ + procs[p].ngoRating]
  /\ procs' = RateOpDone(p, "ngo")
  /\ UNCHANGED <<now, donation, request, delivery, totalDeliveries, awards, everExpired,
                 totalDonations, totalRequests, sink>>

RateIncRequester(p) ==
  /\ procs[p].pc = "rate_award"
  /\ "requester" \in procs[p].todo
  /\ points' = [points EXCEPT ![procs[p].actor] = @ + RatingReward]
  /\ procs' = RateOpDone(p, "requester")
  /\ UNCHANGED <<now, donation, request, delivery, totalDeliveries, awards, everExpired,
                 totalDonations, totalRequests, sink>>

(* the 'rated' emits, sent only for the ratings that were given *)
RateNotify(p) ==
  /\ procs[p].pc = "rate_notify"
  /\ LET pr == procs[p] IN
     IF pr.donorRating = NoRating /\ pr.ngoRating = NoRating
     THEN procs' = [procs EXCEPT ![p] = Finished(pr, "ok")]
     ELSE \E e \in EmitOutcomes : procs' = [procs EXCEPT ![p] = Notified(pr, e, "ok")]
  /\ UNCHANGED <<now, donation, request, delivery, points, totalDeliveries,
                 awards, everExpired,
                 totalDonations, totalRequests, sink>>

(* ------------------------------ behaviours ---------------------------- *)
Store(dons, reqs) ==
  /\ now = 0
  /\ donation = [d \in DonationIds |->
                   IF d \notin dons THEN NoDonation
                   ELSE IF d = "d1" THEN NewDonation("o1")
                   ELSE [NewDonation("o2") EXCEPT !.deliveryMethod = "self_delivery"]]
  /\ request = [r \in RequestIds |->
                  IF r \notin reqs THEN NoRequest
                  ELSE IF r = "r1" THEN NewRequest("u1", "high", 0)
                  ELSE NewRequest("u2", "critical", 0)]
  /\ delivery = <<>>
  /\ points = [u \in Users |-> 0]
  /\ totalDeliveries = [n \in Ngos |-> 0]
  /\ totalDonations = [o \in Donors |->
                         Cardinality({d \in dons : (d = "d1") = (o = "o1")})]
  /\ totalRequests = [u \in Requesters |->
                        Cardinality({r \in reqs : (r = "r1") = (u = "u1")})]
  /\ procs = [p \in Procs |-> IdleProc]
  /\ awards = <<>>
  /\ everExpired = {}
  /\ sink = "up"

(* one Donation and one Request have been posted at minute 0 *)
Init == Store({"d1"}, {"r1"})

StartPickup(p) == \E n \in Ngos, i \in DeliveryIds : StartPickupFind(p, n, i)

CompletePickup(p) ==
  \E n \in Ngos, i \in DeliveryIds, c \in PickupConditions : CompletePickupFind(p, n, i, c)

CompleteDelivery(p) ==
  \E n \in Ngos, i \in DeliveryIds, c \in ConditionChoices : CompleteDeliveryFind(p, n, i, c)

ConfirmReceipt(p) == \E u \in Requesters, i \in DeliveryIds : ConfirmFind(p, u, i)

Cancel(p) == \E a \in Ngos \cup Admins, i \in DeliveryIds : CancelFind(p, a, i)

Accept(p) ==
  \/ \E a \in Ngos, r \in RequestIds : AcceptFind(p, a, r, None)
  \/ \E a \in Donors, r \in RequestIds, d \in DonationIds \cup {None} :
        AcceptFind(p, a, r, d)

Extend(p) ==
  \E a \in Requesters \cup Admins, r \in RequestIds, m \in ExtendChoices :
     ExtendFind(p, a, r, m)

RequestCancel(p) == \E a \in Requesters, r \in RequestIds : RequestCancelFind(p, a, r)

DonationCancel(p) == \E a \in Donors, d \in DonationIds : DonationCancelFind(p, a, d)

AssignNgo(p) ==
  \E a \in Donors, d \in DonationIds, n \in Ngos \cup Requesters :
     AssignNgoFind(p, a, d, n)

DonationDelete(p) == \E a \in Donors, d \in DonationIds : DonationDeleteFind(p, a, d)

RequestDelete(p) == \E a \in Requesters, r \in RequestIds : RequestDeleteFind(p, a, r)

(* a handler resumes after one of its awaits *)
CreateResume == \E p \in Procs : CreateSteps(p)

StartPickupResume == \E p \in Procs : StartPickupSave(p)

CompletePickupResume ==
  \E p \in Procs :
    \/ CompletePickupSavePickedUp(p)
    \/ CompletePickupSaveInProgress(p)
    \/ CompletePickupUpdateDonation(p)

CompleteDeliveryResume ==
  \E p \in Procs :
    \/ CompleteDeliverySave(p)
    \/ CompleteDeliveryUpdateDonation(p)
    \/ CompleteDeliveryUpdateRequest(p)

ConfirmResume ==
  \E p \in Procs :
    \/ ConfirmSaveConfirmed(p)
    \/ ConfirmIncPoints(p)
    \/ ConfirmSaveAwarded(p)

CancelResume ==
  \E p \in Procs :
    \/ CancelSave(p)
    \/ CancelResetDonation(p)
    \/ CancelResetRequest(p)

AcceptResume ==
  \E p \in Procs :
    \/ AcceptSaveExpired(p)
    \/ AcceptFindDonation(p)
    \/ AcceptSaveDonation(p)
    \/ AcceptSaveRequest(p)

ExtendResume == \E p \in Procs : ExtendSave(p)

RequestCancelResume == \E p \in Procs : RequestCancelSave(p)

DonationCancelResume == \E p \in Procs : DonationCancelSave(p)

AssignNgoResume ==
  \E p \in Procs :
    \/ AssignNgoFindNgo(p)
    \/ AssignNgoSave(p)

DonationDeleteResume ==
  \E p \in Procs :
    \/ DonationDeleteRemove(p)
    \/ DonationDeleteDec(p)

RequestDeleteResume ==
  \E p \in Procs :
    \/ RequestDeleteRemove(p)
    \/ RequestDeleteDec(p)

Returns == \E p \in Procs : Return(p)

(* no more Delivery documents than the bound *)
Room == Len(delivery) + CreatesInFlight < MaxDeliveries

(* The delivery routes, one request served at a time, the clock and the   *)
(* expiry job running beside them.                                        *)
Server == CHOOSE p \in Procs : TRUE

(* Deliveries are created by one NGO; the other NGO is the stranger that  *)
(* tries every route on them.                                             *)
FirstNgo == "n1"

CreateStartBy(p, n) ==
  \E d \in DonationIds, r \in RequestIds : CreateFindDonation(p, n, d, r)

Next ==
  \/ Tick
  \/ Sweep
  \/ (Quiet /\ Room /\ CreateStartBy(Server, FirstNgo))
  \/ (Quiet /\ StartPickup(Server))
  \/ (Quiet /\ CompletePickup(Server))
  \/ (Quiet /\ CompleteDelivery(Server))
  \/ (Quiet /\ ConfirmReceipt(Server))
  \/ (Quiet /\ Cancel(Server))
  \/ CreateResume
  \/ StartPickupResume
  \/ CompletePickupResume
  \/ CompleteDeliveryResume
  \/ ConfirmResume
  \/ CancelResume
  \/ Returns

Spec == Init /\ [][Next]_vars

(* Delivery.create and Delivery cancel, two requests in flight at once *)
ClaimRaceNext ==
  \/ Tick
  \/ Sweep
  \/ \E p \in Procs : Room /\ CreateStart(p)
  \/ \E p \in Procs : Cancel(p)
  \/ CreateResume
  \/ CancelResume
  \/ Returns

SpecClaimRace == Init /\ [][ClaimRaceNext]_vars

(* two Delivery.create calls in flight at once, nothing else *)
CreateRaceInit == Store({"d1", "d2"}, {"r1", "r2"})

CreateRaceNext ==
  \/ Tick
  \/ Sweep
  \/ \E p \in Procs : Room /\ CreateStart(p)
  \/ CreateResume
  \/ Returns

SpecCreateRace == CreateRaceInit /\ [][CreateRaceNext]_vars

(* confirm-receipt calls in flight at once on a Delivery that has gone    *)
(* create, start-pickup, complete-pickup and is then completed            *)
InProgress(n, d, r) ==
  [NewDelivery(n, NewDonation("o1"), NewRequest("u1", "high", 0), d, r, 0)
     EXCEPT !.deliveryStatus = "delivery_in_progress", !.pickupConfirmedBy = n,
            !.atPickup = "good", !.pickupTimeActual = SomeDate]

ConfirmRaceInit ==
  /\ now = 0
  /\ donation = [d \in DonationIds |->
                   IF d = "d1"
                   THEN [NewDonation("o1") EXCEPT !.status = "picked_up",
                           !.assignedNGO = "n1", !.assignedRequester = "u1"]
                   ELSE NoDonation]
  /\ request = [r \in RequestIds |->
                  IF r = "r1"
                  THEN [NewRequest("u1", "high", 0) EXCEPT !.status = "accepted_by_ngo",
                          !.acceptedByNgo = "n1"]
                  ELSE NoRequest]
  /\ delivery = <<InProgress("n1", "d1", "r1")>>
  /\ points = [u \in Users |-> 0]
  /\ totalDeliveries = [n \in Ngos |-> IF n = "n1" THEN 1 ELSE 0]
  /\ totalDonations = [o \in Donors |-> IF o = "o1" THEN 1 ELSE 0]
  /\ totalRequests = [u \in Requesters |-> IF u = "u1" THEN 1 ELSE 0]
  /\ procs = [p \in Procs |-> IdleProc]
  /\ awards = <<0>>
  /\ everExpired = {}
  /\ sink = "up"

ConfirmRaceNext ==
  \/ Tick
  \/ (Quiet /\ CompleteDelivery(Server))
  \/ \E p \in Procs : ConfirmReceipt(p)
  \/ CompleteDeliveryResume
  \/ ConfirmResume
  \/ Returns

SpecConfirmRace == ConfirmRaceInit /\ [][ConfirmRaceNext]_vars

(* The request routes, one request served at a time, the clock and the    *)
(* expiry job running beside them.                                        *)
RequestsInit == Store({"d1", "d2"}, {"r1", "r2"})

RequestsNext ==
  \/ Tick
  \/ Sweep
  \/ (Quiet /\ Accept(Server))
  \/ (Quiet /\ Extend(Server))
  \/ (Quiet /\ RequestCancel(Server))
  \/ AcceptResume
  \/ ExtendResume
  \/ RequestCancelResume
  \/ Returns

SpecRequests == RequestsInit /\ [][RequestsNext]_vars

(* the same with the scheduling of the expiry job: setInterval fires it   *)
(* every minute for as long as the server runs                            *)
SpecRequestsFair == SpecRequests /\ WF_vars(Sweep)

(* accept calls in flight at once *)
AcceptRaceNext ==
  \/ Tick
  \/ Sweep
  \/ \E p \in Procs : Accept(p)
  \/ AcceptResume
  \/ Returns

SpecAcceptRace == RequestsInit /\ [][AcceptRaceNext]_vars

(* accept calls in flight at once with each other and with one           *)
(* Delivery.create or Delivery cancel                                     *)
OneDeliveryRoute(p) ==
  \A q \in Procs \ {p} : procs[q].pc \in {"idle", "done"} \/ procs[q].op = "accept"

(* accept calls that name a posted Request and, from a donor, a posted Donation *)
Posted(r, d) == request[r].status # None /\ (d # None => donation[d].status # None)

AcceptPosted(p) ==
  \/ \E a \in Ngos, r \in RequestIds : Posted(r, None) /\ AcceptFind(p, a, r, None)
  \/ \E a \in Donors, r \in RequestIds, d \in DonationIds :
        Posted(r, d) /\ AcceptFind(p, a, r, d)

(* one Delivery document fewer than elsewhere: the accept calls take its place *)
AcceptorRoom == Len(delivery) + CreatesInFlight < MaxDeliveries - 1

AcceptorRaceNext ==
  \/ Tick
  \/ Sweep
  \/ \E p \in Procs : AcceptPosted(p)
  \/ \E p \in Procs : OneDeliveryRoute(p) /\ AcceptorRoom /\ CreateStart(p)
  \/ \E p \in Procs : OneDeliveryRoute(p) /\ Cancel(p)
  \/ AcceptResume
  \/ CreateResume
  \/ CancelResume
  \/ Returns

SpecAcceptorRace == Init /\ [][AcceptorRaceNext]_vars

(* The routes that write Donation.status, one request served at a time:  *)
(* Delivery create, pickup, completion and cancel, and the donor's        *)
(* Donation cancel.                                                       *)
DonationsInit == Store({"d1", "d2"}, {"r1"})

DonationsNext ==
  \/ Tick
  \/ Sweep
  \/ (Quiet /\ AcceptorRoom /\ CreateStart(Server))
  \/ (Quiet /\ StartPickup(Server))
  \/ (Quiet /\ CompletePickup(Server))
  \/ (Quiet /\ CompleteDelivery(Server))
  \/ (Quiet /\ Cancel(Server))
  \/ (Quiet /\ DonationCancel(Server))
  \/ CreateResume
  \/ StartPickupResume
  \/ CompletePickupResume
  \/ CompleteDeliveryResume
  \/ CancelResume
  \/ DonationCancelResume
  \/ Returns

SpecDonations == DonationsInit /\ [][DonationsNext]_vars

(* complete-delivery and Delivery cancel calls in flight at once on a     *)
(* Delivery in delivery_in_progress                                       *)
TerminalRaceNext ==
  \/ Tick
  \/ \E p \in Procs : CompleteDelivery(p)
  \/ \E p \in Procs : Cancel(p)
  \/ CompleteDeliveryResume
  \/ CancelResume
  \/ Returns

SpecTerminalRace == ConfirmRaceInit /\ [][TerminalRaceNext]_vars

(* One create while the donor deletes the Donation or the requester      *)
(* deletes the Request.                                                   *)
CreateDeleteNext ==
  \/ Tick
  \/ (procs[Server].pc = "idle" /\ delivery = << >> /\ CreateStartBy(Server, FirstNgo))
  \/ (\E p \in Procs \ {Server} : DonationDelete(p))
  \/ (\E p \in Procs \ {Server} : RequestDelete(p))
  \/ CreateResume
  \/ DonationDeleteResume
  \/ RequestDeleteResume
  \/ Returns

SpecCreateDelete == Init /\ [][CreateDeleteNext]_vars

(* The rating route beside the routes that end a Delivery, one request    *)
(* served at a time, from a Delivery on its way to the requester.  The    *)
(* requester earns RatingReward for every submission, so their points     *)
(* count the submissions made so far.                                     *)
RatingRoom == \A u \in Requesters : points[u] < RatingReward * MaxRatings

Rate(p) ==
  \E a \in Requesters, i \in DeliveryIds, dr \in RatingChoices, nr \in RatingChoices :
    RateFind(p, a, i, dr, nr)

RateResume ==
  \E p \in Procs :
    \/ RateSave(p)
    \/ RateUpdateDonation(p)
    \/ RateUpdateRequest(p)
    \/ RateIncDonor(p)
    \/ RateIncNgo(p)
    \/ RateIncRequester(p)
    \/ RateNotify(p)

RatingsNext ==
  \/ Tick
  \/ (Quiet /\ CompleteDelivery(Server))
  \/ (Quiet /\ ConfirmReceipt(Server))
  \/ (Quiet /\ Cancel(Server))
  \/ (Quiet /\ RatingRoom /\ Rate(Server))
  \/ CompleteDeliveryResume
  \/ ConfirmResume
  \/ CancelResume
  \/ RateResume
  \/ Returns

SpecRatings == ConfirmRaceInit /\ [][RatingsNext]_vars

(* The delivery routes for one Delivery and the requester's cancel of the *)
(* Request, one request served at a time.                                 *)
RequestCancelNext ==
  \/ Tick
  \/ Sweep
  \/ (Quiet /\ delivery = << >> /\ CreateStartBy(Server, FirstNgo))
  \/ (Quiet /\ StartPickup(Server))
  \/ (Quiet /\ CompletePickup(Server))
  \/ (Quiet /\ CompleteDelivery(Server))
  \/ (Quiet /\ Cancel(Server))
  \/ (Quiet /\ RequestCancel(Server))
  \/ CreateResume
  \/ StartPickupResume
  \/ CompletePickupResume
  \/ CompleteDeliveryResume
  \/ CancelResume
  \/ RequestCancelResume
  \/ Returns

SpecRequestCancel == Init /\ [][RequestCancelNext]_vars

(* The two hard-delete routes, several calls in flight at once. *)
DeleteRaceNext ==
  \/ (\E p \in Procs : DonationDelete(p))
  \/ (\E p \in Procs : RequestDelete(p))
  \/ DonationDeleteResume
  \/ RequestDeleteResume
  \/ Returns

SpecDeleteRace == RequestsInit /\ [][DeleteRaceNext]_vars

(* Every route with a precondition check, one request served at a time,  *)
(* on one Donation, one Request and one Delivery.                         *)
ChecksNext ==
  \/ Tick
  \/ Sweep
  \/ (Quiet /\ delivery = << >> /\ CreateStart(Server))
  \/ (Quiet /\ StartPickup(Server))
  \/ (Quiet /\ CompletePickup(Server))
  \/ (Quiet /\ CompleteDelivery(Server))
  \/ (Quiet /\ ConfirmReceipt(Server))
  \/ (Quiet /\ Cancel(Server))
  \/ (Quiet /\ Accept(Server))
  \/ (Quiet /\ Extend(Server))
  \/ (Quiet /\ AssignNgo(Server))
  \/ (Quiet /\ DonationDelete(Server))
  \/ (Quiet /\ RequestDelete(Server))
  \/ CreateResume
  \/ StartPickupResume
  \/ CompletePickupResume
  \/ CompleteDeliveryResume
  \/ ConfirmResume
  \/ CancelResume
  \/ AcceptResume
  \/ ExtendResume
  \/ AssignNgoResume
  \/ DonationDeleteResume
  \/ RequestDeleteResume
  \/ Returns

SpecChecks == Init /\ [][ChecksNext]_vars

(* The same routes while the socket server may throw from an emit. *)
NotifyInit ==
  /\ now = 0
  /\ donation = [d \in DonationIds |-> IF d = "d1" THEN NewDonation("o1") ELSE NoDonation]
  /\ request = [r \in RequestIds |->
                  IF r = "r1" THEN NewRequest("u1", "high", 0) ELSE NoRequest]
  /\ delivery = <<>>
  /\ points = [u \in Users |-> 0]
  /\ totalDeliveries = [n \in Ngos |-> 0]
  /\ totalDonations = [o \in Donors |-> IF o = "o1" THEN 1 ELSE 0]
  /\ totalRequests = [u \in Requesters |-> IF u = "u1" THEN 1 ELSE 0]
  /\ procs = [p \in Procs |-> IdleProc]
  /\ awards = <<>>
  /\ everExpired = {}
  /\ sink \in SinkStates

SpecNotify == NotifyInit /\ [][ChecksNext]_vars

(* Issues reported on one Delivery before and after its completion and    *)
(* confirmation, one request served at a time.                            *)
ReportIssue(p) ==
  \E a \in Reporters, i \in DeliveryIds, ty \in IssueTypes : ReportIssueFind(p, a, i, ty)

ReportIssueResume == \E p \in Procs : ReportIssueSave(p) \/ ReportIssueNotify(p)

IssuesNext ==
  \/ (Quiet /\ ReportIssue(Server))
  \/ (Quiet /\ CompleteDelivery(Server))
  \/ (Quiet /\ ConfirmReceipt(Server))
  \/ ReportIssueResume
  \/ CompleteDeliveryResume
  \/ ConfirmResume
  \/ Returns

SpecIssues == ConfirmRaceInit /\ [][IssuesNext]_vars

(* The schema method completeDelivery() applied to a Delivery in         *)
(* delivery_in_progress of any priority, estimate and number of issues.  *)
Priorities == {"low", "medium", "high", "urgent"}
FoodConditions == {"excellent", "good", "fair", "poor"}
Estimates == {0, ExpiryMinutes, MaxTime}

PointsInit ==
  /\ now = 0
  /\ donation = [d \in DonationIds |->
                   IF d = "d1"
                   THEN [NewDonation("o1") EXCEPT !.status = "picked_up",
                           !.assignedNGO = "n1", !.assignedRequester = "u1"]
                   ELSE NoDonation]
  /\ request = [r \in RequestIds |->
                  IF r = "r1"
                  THEN [NewRequest("u1", "high", 0) EXCEPT !.status = "accepted_by_ngo",
                          !.acceptedByNgo = "n1"]
                  ELSE NoRequest]
  /\ \E pri \in Priorities, est \in Estimates, k \in 0..MaxIssues :
       delivery = <<[InProgress("n1", "d1", "r1") EXCEPT
                       !.priority = pri, !.estimatedCompletionTime = est, !.issues = [j \in 1..k |-> Issue("food_quality", "u1")]]>>
  /\ points = [u \in Users |-> 0]
  /\ totalDeliveries = [n \in Ngos |-> IF n = "n1" THEN 1 ELSE 0]
  /\ totalDonations = [o \in Donors |-> IF o = "o1" THEN 1 ELSE 0]
  /\ totalRequests = [u \in Requesters |-> IF u = "u1" THEN 1 ELSE 0]
  /\ procs = [p \in Procs |-> IdleProc]
  /\ awards = <<0>>
  /\ everExpired = {}
  /\ sink = "up"

CompleteDeliveryMethod ==
  /\ delivery[1].deliveryStatus = "delivery_in_progress"
  /\ \E c \in FoodConditions : delivery' = <<completeDelivery(delivery[1], c, now)>>
  /\ UNCHANGED <<now, donation, request, points, totalDeliveries, procs,
                 awards, everExpired, totalDonations, totalRequests, sink>>

PointsNext == Tick \/ CompleteDeliveryMethod

SpecPoints == PointsInit /\ [][PointsNext]_vars

(* ------------------------------ properties ---------------------------- *)
DeliveriesOf(d, r) ==
  {i \in DeliveryIds : delivery[i].donation = d /\ delivery[i].request = r}

ActiveOnDonation(d) ==
  {i \in DeliveryIds : delivery[i].donation = d
                         /\ delivery[i].deliveryStatus \in ActiveDeliveryStatuses}

ActiveOnRequest(r) ==
  {i \in DeliveryIds : delivery[i].request = r
                         /\ delivery[i].deliveryStatus \in ActiveDeliveryStatuses}

(* C1: of two concurrent Delivery.create calls for the same active        *)
(* Donation and the same pending Request only one succeeds: no two        *)
(* Delivery records are ever created for one Donation/Request pair.       *)
C1_OneDeliveryPerPair ==
  \A d \in DonationIds, r \in RequestIds : Cardinality(DeliveriesOf(d, r)) <= 1

(* C2: the NGO's points are incremented for a Delivery at most once, also *)
(* when two confirm-receipt handlers interleave.                          *)
C2_AwardAtMostOnce ==
  \A i \in DeliveryIds : awards[i] <= 1

(* C3: of the accept calls racing on one pending Request at most one is   *)
(* answered with success.                                                 *)
AcceptedOk(r) ==
  {p \in Procs : procs[p].pc = "done" /\ procs[p].op = "accept"
                   /\ procs[p].rid = r /\ procs[p].res = "ok"}

C3_OneAcceptWins ==
  \A r \in RequestIds : Cardinality(AcceptedOk(r)) <= 1

(* C4: every Donation and every Request is referenced by at most one      *)
(* Delivery whose deliveryStatus is non-terminal.                          *)
C4_ExclusiveClaim ==
  /\ \A d \in DonationIds : Cardinality(ActiveOnDonation(d)) <= 1
  /\ \A r \in RequestIds : Cardinality(ActiveOnRequest(r)) <= 1

(* C5: completeDelivery stores pointsEarned and leaves every user's       *)
(* points alone; points change only in the award step of a                *)
(* confirm-receipt by the bound requester on a delivered, not yet awarded *)
(* Delivery, by exactly the stored pointsEarned, and pointsAwarded turns  *)
(* true only in that handler.                                             *)
AwardStep(p, n) ==
  /\ procs[p].pc = "confirm_incPoints"
  /\ LET del == delivery[procs[p].del] IN
     /\ del.ngo = n
     /\ del.requester = procs[p].actor
     /\ del.deliveryStatus = "delivered"
     /\ ~del.pointsAwarded
     /\ awards[procs[p].del] = 0
     /\ points'[n] = points[n] + del.pointsEarned

C5_DeferredAward ==
  [][/\ \A n \in Users :
          points'[n] # points[n] => \E p \in Procs : AwardStep(p, n)
     /\ \A i \in DeliveryIds :
          /\ (delivery[i].deliveryStatus # "delivered"
                /\ delivery'[i].deliveryStatus = "delivered")
             => /\ delivery'[i].pointsEarned = calculatePoints(delivery'[i])
                /\ points' = points
          /\ (~delivery[i].pointsAwarded /\ delivery'[i].pointsAwarded)
             => \E p \in Procs : /\ procs[p].pc = "confirm_saveAwarded"
                                 /\ procs[p].del = i
                                 /\ awards[i] = 1]_vars

(* C6: a confirm-receipt by the bound requester that arrives when the     *)
(* Delivery already has requesterConfirmed and pointsAwarded is answered  *)
(* "already confirmed" at once and changes neither the Delivery nor any   *)
(* user's points.                                                         *)
C6_ConfirmIdempotent ==
  [][\A p \in Procs :
       (/\ procs[p].pc = "idle"
        /\ procs'[p].pc # "idle"
        /\ procs'[p].op = "confirmReceipt"
        /\ LET del == delivery[procs'[p].del] IN
           /\ del.requester = procs'[p].actor
           /\ del.deliveryStatus = "delivered"
           /\ del.requesterConfirmed
           /\ del.pointsAwarded)
       => /\ procs'[p].pc = "done"
          /\ procs'[p].res = "already_confirmed"
          /\ delivery' = delivery
          /\ points' = points]_vars

C6_Witness ==
  \E p \in Procs :
    /\ procs[p].pc = "done"
    /\ procs[p].op = "confirmReceipt"
    /\ procs[p].res = "already_confirmed"
    /\ awards[procs[p].del] = 1

(* C7: every Delivery cancel that passes its checks, whatever the status  *)
(* it cancels from, writes the Donation back to active with assignedNGO   *)
(* and assignedRequester null and the Request back to pending with        *)
(* acceptedBy.ngo null, and answers success only after both writes.       *)
C7_CancelCascade ==
  [][\A p \in Procs :
       (procs[p].op = "cancel" /\ procs[p].pc = "cancel_cascade"
          /\ procs'[p] # procs[p])
       => LET d == delivery[procs[p].del].donation
              r == delivery[procs[p].del].request
              written == procs[p].todo \ procs'[p].todo IN
          /\ Cardinality(written) = 1
          /\ delivery[procs[p].del].deliveryStatus = "cancelled"
          /\ "donation" \in written =>
               /\ donation'[d].status = "active"
               /\ donation'[d].assignedNGO = None
               /\ donation'[d].assignedRequester = None
          /\ "request" \in written =>
               /\ request'[r].status = "pending"
               /\ request'[r].acceptedByNgo = None
          /\ procs'[p].pc = "done" <=> procs[p].todo = written
          /\ procs'[p].pc = "done" => procs'[p].res = "ok"]_vars

(* a cancel from delivery_in_progress has completed *)
C7_Witness ==
  \E p \in Procs :
    /\ procs[p].pc = "done" /\ procs[p].op = "cancel" /\ procs[p].res = "ok"
    /\ LET del == delivery[procs[p].del] IN
       /\ del.deliveryStatus = "cancelled"
       /\ del.pickupConfirmedBy # None
       /\ donation[del.donation].status = "active"
       /\ donation[del.donation].assignedNGO = None
       /\ request[del.request].status = "pending"
       /\ request[del.request].acceptedByNgo = None

(* C8: a Request whose stored status has once been expired never has      *)
(* status pending again.                                                  *)
C8_ExpiredNeverPending ==
  \A r \in everExpired : request[r].status # "pending"

(* C10: a step of the expiry job changes only Requests that are pending   *)
(* with expiryTimestamp strictly before now, changes only their status    *)
(* (to expired), and changes nothing else in the store.                   *)
C10_SweepFrame ==
  [][(procs' = procs /\ now' = now)
       => /\ \A r \in RequestIds :
               request'[r] # request[r] =>
                 /\ request[r].status = "pending"
                 /\ request[r].expiryTimestamp < now
                 /\ request'[r] = [request[r] EXCEPT !.status = "expired"]
          /\ UNCHANGED <<donation, delivery, points, totalDeliveries,
                 totalDonations, totalRequests>>]_vars

(* the expiry job has run over one stale pending Request and one Request  *)
(* it must leave alone                                                    *)
C10_Witness ==
  /\ request["r1"].status = "expired"
  /\ request["r1"].expiryTimestamp < now
  /\ request["r2"].status \in {"accepted_by_ngo", "cancelled"}
  /\ request["r2"].expiryTimestamp < now
  /\ Quiet

(* C9: under the periodic expiry job a Request that is pending past its   *)
(* expiryTimestamp does not stay so: it is stored as expired, unless it   *)
(* left pending otherwise or was extended.                                *)
Stale(r) == request[r].status = "pending" /\ request[r].expiryTimestamp < now

C9_SweepEventuallyExpires ==
  \A r \in RequestIds :
    Stale(r) ~> (request[r].status = "expired" \/ ~Stale(r))

C9_Witness ==
  \E r \in RequestIds :
    /\ request[r].status = "expired"
    /\ request[r].expiryTimestamp < now
    /\ Quiet

(* C11: a Request never has acceptedBy.donor and acceptedBy.ngo both set,  *)
(* whatever the interleaving of accept, Delivery.create and Delivery      *)
(* cancel.                                                                *)
C11_OneAcceptor ==
  \A r \in RequestIds :
    ~(request[r].acceptedByDonor # None /\ request[r].acceptedByNgo # None)

(* a donor's and an NGO's accept of one Request have both been answered   *)
C11_Witness ==
  \E p, q \in Procs :
    /\ procs[p].pc = "done" /\ procs[p].op = "accept"
    /\ RoleOf(procs[p].actor) = "donor" /\ procs[p].res \notin {"not_found", "conflict"}
    /\ procs[q].pc = "done" /\ procs[q].op = "accept"
    /\ RoleOf(procs[q].actor) = "ngo" /\ procs[q].res = "ok"
    /\ procs[p].rid = procs[q].rid
    /\ request[procs[q].rid].acceptedByNgo # None

(* C12: a Donation's status only moves forward along active, assigned,    *)
(* picked_up, delivered, or to cancelled or expired; the one backward     *)
(* move is assigned_to_ngo to active, made by a Delivery cancel.          *)
DonationRank(st) ==
  IF st = "active" THEN 0
  ELSE IF st \in {"assigned_to_ngo", "assigned_to_requester"} THEN 1
  ELSE IF st = "picked_up" THEN 2
  ELSE IF st = "delivered" THEN 3 ELSE 4

DonationForward(a, b) ==
  /\ a \notin {"cancelled", "expired"}
  /\ \/ b \in {"cancelled", "expired"}
     \/ DonationRank(a) < DonationRank(b)

C12_DonationForwardOnly ==
  [][\A d \in DonationIds :
       donation'[d].status # donation[d].status
       => \/ DonationForward(donation[d].status, donation'[d].status)
          \/ /\ donation[d].status = "assigned_to_ngo"
             /\ donation'[d].status = "active"
             /\ \E p \in Procs : procs[p].pc = "cancel_cascade"]_vars

(* C13: start-pickup, complete-pickup and complete-delivery pass their    *)
(* checks only for the Delivery's own NGO and only from assigned,         *)
(* pickup_in_progress and delivery_in_progress respectively; when they    *)
(* answer success the stored status is pickup_in_progress,                *)
(* delivery_in_progress and delivered; and the stored status never skips  *)
(* or repeats a step of the workflow.                                     *)
WorkflowOps == {"startPickup", "completePickup", "completeDelivery"}

RequiredStatus(o) ==
  IF o = "startPickup" THEN "assigned"
  ELSE IF o = "completePickup" THEN "pickup_in_progress"
  ELSE "delivery_in_progress"

ResultStatus(o) ==
  IF o = "startPickup" THEN "pickup_in_progress"
  ELSE IF o = "completePickup" THEN "delivery_in_progress"
  ELSE "delivered"

WorkflowStep(a, b) ==
  \/ a = "assigned" /\ b = "pickup_in_progress"
  \/ a = "pickup_in_progress" /\ b = "picked_up"
  \/ a = "picked_up" /\ b = "delivery_in_progress"
  \/ a = "delivery_in_progress" /\ b = "delivered"
  \/ a \notin {"delivered", "cancelled"} /\ b = "cancelled"

C14_TerminalStatus ==
  [][\A i \in DeliveryIds :
       /\ delivery[i].deliveryStatus \in {"delivered", "cancelled"}
            => delivery'[i].deliveryStatus = delivery[i].deliveryStatus
       /\ ~(/\ delivery'[i].deliveryStatus = "delivered"
            /\ donation'[delivery'[i].donation].status = "active")]_vars

(* C15: a start-pickup, complete-pickup, complete-delivery, cancel,       *)
(* confirm-receipt, accept, assign-ngo, extend or delete whose            *)
(* precondition check fails answers a failure and has written nothing:    *)
(* the checks come before every write of the handler, and the step that   *)
(* answers the failure leaves Deliveries, Donations, Requests, counters   *)
(* and points as they are.                                                *)
CheckedOps ==
  {"startPickup", "completePickup", "completeDelivery", "cancel", "confirmReceipt",
   "accept", "assignNgo", "extend", "donationDelete", "requestDelete"}

PreconditionFailures == {"not_found", "forbidden", "conflict", "bad_request"}

(* where a handler stands while it has only read *)
Checking == {"idle", "accept_findDonation", "assignNgo_findNgo"}

StoreUnchanged ==
  UNCHANGED <<donation, request, delivery, points, totalDeliveries,
              totalDonations, totalRequests>>

C15_FailedCheckWritesNothing ==
  [][\A p \in Procs :
       (procs'[p] # procs[p] /\ procs'[p].op \in CheckedOps)
       => /\ procs[p].pc \in Checking => StoreUnchanged
          /\ (procs'[p].pc = "done" /\ procs'[p].res \in PreconditionFailures)
               => procs[p].pc \in Checking]_vars

(* a donor's accept has failed on a donationId that names no Donation of  *)
(* theirs, after a Delivery was created and cancelled                     *)
C15_Witness ==
  \E p \in Procs :
    /\ procs[p].pc = "done" /\ procs[p].op = "accept"
    /\ RoleOf(procs[p].actor) = "donor" /\ procs[p].did # None
    /\ procs[p].res = "not_found"
    /\ request[procs[p].rid].status = "pending"
    /\ Len(delivery) > 0

(* C16: a lifecycle operation that has committed its state change answers *)
(* success whatever becomes of the notification that follows: the step    *)
(* that answers a failure writes nothing.                                 *)
C16_NotifyFailureHarmless ==
  [][\A p \in Procs :
       (procs[p].pc # "done" /\ procs'[p].pc = "done" /\ procs'[p].res = "error")
       => <<donation, request, delivery>>' = <<donation, request, delivery>>]_vars

(* C17: the points of a completed Delivery are                             *)
(* max(0, 10 + priority bonus + condition bonus + timeliness bonus         *)
(* - 2 * issues), with urgent 15, high 10, medium 5, low 0; excellent 10,  *)
(* good 5, otherwise 0; 10 for a completion not later than the estimate;   *)
(* urgent, excellent and on time gives 45 without issues and 43 with one.  *)
C17_PriorityBonus == [urgent |-> 15, high |-> 10, medium |-> 5, low |-> 0]

C17_ConditionBonus == [excellent |-> 10, good |-> 5, fair |-> 0, poor |-> 0]

C17_Formula(del) ==
  LET raw == 10 + C17_PriorityBonus[del.priority] + C17_ConditionBonus[del.atDelivery]
                + (IF del.actualCompletionTime <= del.estimatedCompletionTime
                   THEN 10 ELSE 0)
                - 2 * Len(del.issues)
  IN IF raw < 0 THEN 0 ELSE raw

C17_PointsFormula ==
  \A i \in DeliveryIds :
    delivery[i].deliveryStatus = "delivered"
    => /\ delivery[i].pointsEarned = C17_Formula(delivery[i])
       /\ (/\ delivery[i].priority = "urgent" /\ delivery[i].atDelivery = "excellent"
           /\ delivery[i].actualCompletionTime <= delivery[i].estimatedCompletionTime)
          => /\ Len(delivery[i].issues) = 0 => delivery[i].pointsEarned = 45
             /\ Len(delivery[i].issues) = 1 => delivery[i].pointsEarned = 43

(* urgent, excellent, on time, one issue: 43 points; and a late Delivery  *)
(* of low priority in poor condition with six issues is stored, too       *)
C17_Witness ==
  \E i \in DeliveryIds :
    /\ delivery[i].deliveryStatus = "delivered"
    /\ delivery[i].priority = "urgent" /\ delivery[i].atDelivery = "excellent"
    /\ delivery[i].actualCompletionTime > 0
    /\ delivery[i].actualCompletionTime <= delivery[i].estimatedCompletionTime
    /\ Len(delivery[i].issues) = 1
    /\ delivery[i].pointsEarned = 43

(* C18: on the happy path (Request of urgency high, create, start-pickup, *)
(* complete-pickup in condition good, complete-delivery in condition      *)
(* excellent, on time, no issues) complete-delivery stores pointsEarned   *)
(* 40 = 10 + 10 + 10 + 10, and the confirm-receipt that follows raises    *)
(* the NGO's points by exactly 40.                                        *)
HappyPath(del) ==
  /\ del.deliveryStatus = "delivered"
  /\ del.priority = "high"
  /\ del.atPickup = "good" /\ del.atDelivery = "excellent"
  /\ del.actualCompletionTime # NoTime
  /\ del.actualCompletionTime <= del.estimatedCompletionTime
  /\ del.issues = <<>>

HappyPathPoints(k) ==
  /\ \A i \in 1..Len(delivery') :
       HappyPath(delivery'[i]) => delivery'[i].pointsEarned = k
  /\ \A p \in Procs :
       (procs[p].pc = "confirm_incPoints" /\ procs'[p].pc = "confirm_saveAwarded"
          /\ HappyPath(delivery[procs[p].del]))
       => points'[delivery[procs[p].del].ngo] = points[delivery[procs[p].del].ngo] + k

ReportIssueFrame ==
  \A p \in Procs :
    (procs[p].op = "reportIssue" /\ procs'[p] # procs[p])
    => /\ UNCHANGED <<donation, request, points, totalDeliveries>>
       /\ \/ delivery' = delivery
          \/ /\ procs[p].pc = "reportIssue_save"
             /\ RoleOf(procs[p].actor) = "admin"
                  \/ procs[p].actor \in {delivery[procs[p].del].ngo,
                                         delivery[procs[p].del].donor,
                                         delivery[procs[p].del].requester}
             /\ \E ty \in IssueTypes :
                  delivery' = [delivery EXCEPT ![procs[p].del].issues =
                                 Append(@, Issue(ty, procs[p].actor))]

ScoreFixedAtCompletion ==
  \A i \in DeliveryIds :
    /\ delivery[i].deliveryStatus = "delivered"
       => delivery'[i].pointsEarned = delivery[i].pointsEarned
    /\ points'[delivery[i].ngo] # points[delivery[i].ngo]
       => points'[delivery[i].ngo] - points[delivery[i].ngo] = delivery[i].pointsEarned

C19_ReportIssueAppendsOnly == [][ReportIssueFrame /\ ScoreFixedAtCompletion]_vars

(* issues were reported before and after completion; the Delivery was     *)
(* scored with the one issue it had then, and that amount was awarded     *)
C19_Witness ==
  \E i \in DeliveryIds :
    /\ delivery[i].deliveryStatus = "delivered"
    /\ Len(delivery[i].issues) >= 3
    /\ delivery[i].issues[1].reportedBy # delivery[i].issues[2].reportedBy
    /\ delivery[i].atDelivery = "excellent"
    /\ delivery[i].pointsEarned = 38
    /\ delivery[i].pointsAwarded
    /\ points[delivery[i].ngo] = 38

(* C20: a donor's accept of a pending, unexpired Request with an active   *)
(* Donation of their own succeeds: the Donation becomes                   *)
(* assigned_to_requester with assignedRequester set, the Request becomes  *)
(* accepted_by_donor with acceptedBy.donor and assignedDonation set, and  *)
(* the call answers success.                                              *)
DonorAccepting(p) ==
  /\ procs[p].op = "accept" /\ RoleOf(procs[p].actor) = "donor"
  /\ procs'[p] # procs[p]

C20_DonorAcceptSucceeds ==
  [][\A p \in Procs :
       /\ (DonorAccepting(p) /\ procs[p].pc = "accept_saveDonation")
          => /\ procs'[p].pc = "accept_saveRequest"
             /\ donation'[procs[p].did].status = "assigned_to_requester"
             /\ donation'[procs[p].did].assignedRequester
                  = request[procs[p].rid].requester
       /\ (DonorAccepting(p) /\ procs[p].pc = "accept_saveRequest")
          => /\ procs'[p].pc = "done" /\ procs'[p].res = "ok"
             /\ request'[procs[p].rid].status = "accepted_by_donor"
             /\ request'[procs[p].rid].acceptedByDonor = procs[p].actor
             /\ request'[procs[p].rid].assignedDonation = procs[p].did]_vars

(* C21: an accept or a create that finds its Request pending but past its *)
(* expiryTimestamp stores the status expired on it and fails; it creates  *)
(* no Delivery, stamps no acceptor, leaves the Donation active and        *)
(* changes no counter.                                                    *)
FindsExpired(p) ==
  /\ procs'[p] # procs[p]
  /\ \/ procs[p].pc = "create_findRequest"
     \/ procs[p].pc = "idle" /\ procs'[p].op = "accept"
  /\ request[procs'[p].rid].status = "pending"
  /\ isExpired(request[procs'[p].rid], now)

SavesExpired(p) ==
  /\ procs'[p] # procs[p]
  /\ procs[p].pc \in {"create_saveExpired", "accept_saveExpired"}

C21_ExpiredOnAccess ==
  [][\A p \in Procs :
       /\ FindsExpired(p)
          => procs'[p].pc \in {"create_saveExpired", "accept_saveExpired"}
       /\ SavesExpired(p)
          => /\ procs'[p].pc = "done" /\ procs'[p].res = "expired"
             /\ request' = [request EXCEPT ![procs[p].rid].status = "expired"]
             /\ procs[p].op = "create" => donation[procs[p].did].status = "active"
             /\ UNCHANGED <<donation, delivery, points, totalDeliveries,
                            totalDonations, totalRequests>>]_vars

C21_Witness ==
  \E p \in Procs :
    /\ procs[p].pc = "done" /\ procs[p].op = "create" /\ procs[p].res = "expired"
    /\ request[procs[p].rid].status = "expired"
    /\ request[procs[p].rid].acceptedByNgo = None
    /\ donation[procs[p].did].status = "active"
    /\ delivery = << >>

(* C22: create is all-or-nothing: once a create call has ended, whether   *)
(* in success or in the failure of one of its writes, either the Delivery *)
(* exists in status assigned, the Donation is assigned_to_ngo with its    *)
(* NGO and requester, the Request is accepted_by_ngo with its NGO and the *)
(* NGO's totalDeliveries is incremented, or none of these is present.     *)
CreatedAll(n, d, r) ==
  /\ \E i \in DeliveryIds :
       /\ delivery[i].donation = d /\ delivery[i].request = r /\ delivery[i].ngo = n
       /\ delivery[i].deliveryStatus = "assigned"
  /\ donation[d].status = "assigned_to_ngo"
  /\ donation[d].assignedNGO = n /\ donation[d].assignedRequester # None
  /\ request[r].status = "accepted_by_ngo" /\ request[r].acceptedByNgo = n
  /\ totalDeliveries[n] = 1

CreatedNone(n, d, r) ==
  /\ \A i \in DeliveryIds : ~(delivery[i].donation = d /\ delivery[i].request = r)
  /\ donation[d].status # "assigned_to_ngo" /\ donation[d].assignedNGO = None
  /\ request[r].status # "accepted_by_ngo" /\ request[r].acceptedByNgo = None
  /\ totalDeliveries[n] = 0

C22_CreateAllOrNothing ==
  \A p \in Procs :
    (procs[p].pc = "done" /\ procs[p].op = "create")
    => \/ CreatedAll(procs[p].actor, procs[p].did, procs[p].rid)
       \/ CreatedNone(procs[p].actor, procs[p].did, procs[p].rid)


(* ---------------------------------------------------------------------- *)
(* C23: a Delivery cancel succeeds only for an admin or the Delivery's own  *)
(* NGO and only on a Delivery that was neither delivered nor cancelled;     *)
(* after a successful cancel the Delivery is cancelled and both cancelledBy *)
(* and cancelledAt are set.                                                 *)
CancelSucceeded(p) ==
  /\ procs[p].pc = "done"
  /\ procs[p].op = "cancel"
  /\ procs[p].res = "ok"

C23_CancelGuardedAndStamped ==
  \A p \in Procs :
    CancelSucceeded(p)
    => LET del == delivery[procs[p].del] IN
       /\ \/ RoleOf(procs[p].actor) = "admin"
          \/ (RoleOf(procs[p].actor) = "ngo" /\ del.ngo = procs[p].actor)
       /\ del.deliveryStatus = "cancelled"
       /\ del.cancelledBy = procs[p].actor
       /\ del.cancelledAt # NoTime


(* ---------------------------------------------------------------------- *)
(* C24: after a successful Delivery cancel the released Request can be    *)
(* matched again whatever time has passed since it was first claimed: a   *)
(* create that finds the released Request pending, its Donation active,   *)
(* goes on to build the Delivery and is not refused.                      *)
Released(r) ==
  \E i \in DeliveryIds :
    /\ delivery[i].request = r
    /\ delivery[i].deliveryStatus = "cancelled"

C24_ReleasedRequestClaimable ==
  [][\A p \in Procs :
       ( /\ procs[p].pc = "create_findRequest"
         /\ procs'[p] # procs[p]
         /\ request[procs[p].rid].status = "pending"
         /\ Released(procs[p].rid) )
       => procs'[p].pc = "create_saveDelivery"]_vars


(* ---------------------------------------------------------------------- *)
(* C25: a Request follows pending -> accepted_by_donor or accepted_by_ngo *)
(* -> in_transit -> delivered: it becomes delivered only from in_transit  *)
(* and becomes accepted only from pending.                                *)
AcceptedStatuses == {"accepted_by_donor", "accepted_by_ngo"}

C25_RequestLifecycle ==
  [][\A r \in RequestIds :
       /\ (request'[r].status = "delivered" /\ request[r].status # "delivered")
          => request[r].status = "in_transit"
       /\ (request'[r].status \in AcceptedStatuses
           /\ request'[r].status # request[r].status)
          => request[r].status = "pending"]_vars


(* ---------------------------------------------------------------------- *)
(* C26: an active Donation whose expiryTime has passed is never claimed:  *)
(* a create that looks it up does not go on with it, and no step takes it *)
(* from active to an assigned status.                                     *)
StaleDonation(d) ==
  /\ donation[d].status = "active"
  /\ donationIsExpired(donation[d], now)

C26_ExpiredDonationNeverClaimed ==
  [][\A d \in DonationIds :
       StaleDonation(d)
       => /\ donation'[d].status \notin {"assigned_to_ngo", "assigned_to_requester"}
          /\ \A p \in Procs :
               (procs[p].pc = "idle" /\ procs'[p].op = "create" /\ procs'[p].did = d)
               => procs'[p].pc # "create_findRequest"]_vars


(* ---------------------------------------------------------------------- *)
(* C27: a rating submission is accepted only from the Delivery's own      *)
(* requester and only on a delivered Delivery; it adds donorRating to the *)
(* donor's points, ngoRating to the NGO's points and 2 to the requester's *)
(* points, and leaves pointsEarned, pointsAwarded and requesterConfirmed  *)
(* alone; a rejected submission changes no points.                        *)
RateArrives(p) == procs[p].pc = "idle" /\ procs'[p].op = "rate"

RateAccepted(p) == RateArrives(p) /\ procs'[p].pc # "done"

(* the points once every $inc of the submission has been applied *)
Rated(pr) ==
  [u \in Users |->
     IF u \notin DOMAIN pr.populated THEN points[u]
     ELSE pr.populated[u]
          + (IF u = pr.mDel.donor THEN pr.donorRating ELSE 0)
          + (IF u = pr.mDel.ngo THEN pr.ngoRating ELSE 0)
          + (IF u = pr.mDel.requester THEN RatingReward ELSE 0)]

AwardFields(del) == <<del.pointsEarned, del.pointsAwarded, del.requesterConfirmed>>

C27_RatingAward ==
  [][\A p \in Procs :
       /\ RateArrives(p)
          => /\ points' = points
             /\ RateAccepted(p)
                <=> /\ delivery[procs'[p].del].requester = procs'[p].actor
                    /\ delivery[procs'[p].del].deliveryStatus = "delivered"
       /\ (procs[p].op = "rate" /\ procs'[p] # procs[p])
          => \A i \in DeliveryIds : AwardFields(delivery'[i]) = AwardFields(delivery[i])
       /\ (procs[p].pc = "rate_award" /\ procs'[p].pc = "rate_notify")
          => points' = Rated(procs[p])]_vars

C27_Witness ==
  \E p \in Procs :
    /\ procs[p].pc = "rate_notify"
    /\ procs[p].donorRating = 5
    /\ procs[p].ngoRating = 1
    /\ points[procs[p].mDel.donor] = 5
    /\ points[procs[p].actor] = RatingReward
    /\ delivery[procs[p].del].pointsAwarded


(* ---------------------------------------------------------------------- *)
(* C28: every user's points are non-negative and never decrease; they     *)
(* change only in a step of confirm-receipt or of a rating submission, so *)
(* cancelling or completing a Delivery neither lowers nor raises them.    *)
PointsOps == {"confirmReceipt", "rate"}

C28_PointsOnlyGrow ==
  [][\A u \in Users :
       /\ points[u] >= 0
       /\ points'[u] >= points[u]
       /\ points'[u] # points[u]
          => \E p \in Procs : procs[p].op \in PointsOps /\ procs'[p] # procs[p]]_vars

C28_Witness ==
  \E p \in Procs :
    /\ procs[p].pc = "done"
    /\ procs[p].op = "confirmReceipt"
    /\ procs[p].res = "ok"
    /\ delivery[procs[p].del].pointsEarned > 0
    /\ points[delivery[procs[p].del].ngo] = delivery[procs[p].del].pointsEarned


(* ---------------------------------------------------------------------- *)
(* C29: whenever no handler is mid-operation, a Delivery in               *)
(* delivery_in_progress has its Donation in picked_up and a delivered     *)
(* Delivery has its Donation and its Request in delivered, whatever       *)
(* cancels the donor or the requester issued in between.                  *)
C29_LinkedStatusesInStep ==
  Quiet
  => \A i \in DeliveryIds :
       LET del == delivery[i] IN
       /\ del.deliveryStatus = "delivery_in_progress"
          => donation[del.donation].status = "picked_up"
       /\ del.deliveryStatus = "delivered"
          => /\ donation[del.donation].status = "delivered"
             /\ request[del.request].status = "delivered"


(* ---------------------------------------------------------------------- *)
(* C30: start-pickup changes only deliveryStatus, to pickup_in_progress:  *)
(* pickupTime.actual and every other field of the Delivery, and the       *)
(* linked Donation and Request, are left as they were, and                *)
(* pickupTime.actual is first stamped by complete-pickup.                 *)
StartPickupStep(p) ==
  /\ procs'[p] # procs[p]
  /\ procs[p].op = "startPickup" \/ procs'[p].op = "startPickup"

OthersUnchanged ==
  UNCHANGED <<donation, request, points, totalDeliveries, totalDonations, totalRequests>>

FirstStamp(i) ==
  /\ i \in DeliveryIds
  /\ delivery[i].pickupTimeActual = None
  /\ delivery'[i].pickupTimeActual # None

C30_StartPickupOnlyStatus ==
  [][\A p \in Procs :
       /\ StartPickupStep(p)
          => /\ OthersUnchanged
             /\ \A i \in DeliveryIds :
                  \/ delivery'[i] = delivery[i]
                  \/ delivery'[i] =
                       [delivery[i] EXCEPT !.deliveryStatus = "pickup_in_progress"]
       /\ \A i \in DeliveryIds :
            (FirstStamp(i) /\ procs'[p] # procs[p]) => procs[p].op = "completePickup"]_vars

(* C30 as the program has it: the save of start-pickup also stamps        *)
(* pickupTime.actual, through the Delivery's pre('save') hook, when it is *)
(* not yet set; nothing else changes, and pickupTime.actual is first      *)
(* stamped by start-pickup.                                               *)
C30_StartPickupFrame ==
  [][\A p \in Procs :
       /\ StartPickupStep(p)
          => /\ OthersUnchanged
             /\ \A i \in DeliveryIds :
                  \/ delivery'[i] = delivery[i]
                  \/ /\ delivery[i].deliveryStatus = "assigned"
                     /\ delivery'[i] =
                          [delivery[i] EXCEPT !.deliveryStatus = "pickup_in_progress",
                                              !.pickupTimeActual = SomeDate]
       /\ \A i \in DeliveryIds :
            (FirstStamp(i) /\ procs'[p] # procs[p]) => procs[p].op = "startPickup"]_vars

C30_Witness ==
  \E p \in Procs :
    /\ procs[p].pc = "done"
    /\ procs[p].op = "startPickup"
    /\ procs[p].res = "ok"
    /\ delivery[procs[p].del].deliveryStatus = "pickup_in_progress"
    /\ delivery[procs[p].del].pickupTimeActual = SomeDate
    /\ delivery[procs[p].del].atPickup = None


(* ---------------------------------------------------------------------- *)
(* C31: no stored state of a Delivery ever has deliveryStatus picked_up   *)
(* or failed: complete-pickup takes the stored status from                *)
(* pickup_in_progress to delivery_in_progress in one update.              *)
C31_NeverPickedUpOrFailed ==
  \A i \in DeliveryIds : delivery[i].deliveryStatus \notin {"picked_up", "failed"}

BetweenPickupSaves(i) ==
  \E p \in Procs :
    /\ procs[p].op = "completePickup"
    /\ procs[p].pc = "completePickup_saveInProgress"
    /\ procs[p].del = i

(* C31 as the program has it: failed is never stored, and picked_up is    *)
(* stored by Delivery.completePickup()'s own save and stays only until    *)
(* the route's next save replaces it by delivery_in_progress.             *)
C31_PickedUpOnlyBetweenSaves ==
  \A i \in DeliveryIds :
    /\ delivery[i].deliveryStatus # "failed"
    /\ delivery[i].deliveryStatus = "picked_up" => BetweenPickupSaves(i)

C31_Witness ==
  \E i \in DeliveryIds :
    /\ delivery[i].deliveryStatus = "picked_up"
    /\ delivery[i].atPickup = None
    /\ BetweenPickupSaves(i)


(* ---------------------------------------------------------------------- *)
(* C32: the Request statuses delivered and cancelled are absorbing: once  *)
(* a Request is cancelled by its requester or delivered, no later         *)
(* operation changes its status.                                          *)
C32_RequestTerminalAbsorbing ==
  [][\A r \in RequestIds :
       request[r].status \in {"delivered", "cancelled"}
       => request'[r].status = request[r].status]_vars


(* ---------------------------------------------------------------------- *)
(* C33: requesterConfirmed and pointsAwarded are one-way latches          *)
(* consistent with the status: neither returns from true to false, and in *)
(* every reachable state pointsAwarded implies requesterConfirmed and     *)
(* deliveryStatus delivered.                                              *)
AwardedConsistent ==
  \A i \in DeliveryIds :
    delivery[i].pointsAwarded
    => /\ delivery[i].requesterConfirmed
       /\ delivery[i].deliveryStatus = "delivered"

LatchesHold ==
  \A i \in DeliveryIds :
    /\ delivery[i].pointsAwarded => delivery'[i].pointsAwarded
    /\ delivery[i].requesterConfirmed => delivery'[i].requesterConfirmed

Succeeds(p) ==
  /\ procs[p].pc # "done"
  /\ procs'[p].pc = "done"
  /\ procs'[p].op \in {"accept", "create"}
  /\ procs'[p].res = "ok"

C34_ExpiryAndAcceptExclusive ==
  [][/\ \A r \in RequestIds :
          /\ request[r].status = "expired"
             => request'[r].status \notin AcceptedStatuses
          /\ request[r].status \in AcceptedStatuses
             => request'[r].status # "expired"
     /\ \A p \in Procs :
          Succeeds(p) => request'[procs'[p].rid].status # "expired"]_vars


(* ---------------------------------------------------------------------- *)
(* C35: expiry by time is monotone: once isExpired() is true of a Request *)
(* it stays true; extend goes on only with a pending Request that is not  *)
(* yet past its expiryTimestamp, and never makes a Request that had       *)
(* expired by time acceptable again.                                      *)
ExtendAccepted(p) ==
  /\ procs[p].pc = "idle"
  /\ procs'[p].op = "extend"
  /\ procs'[p].pc = "extend_save"

C35_ExpiryMonotone ==
  [][/\ \A r \in RequestIds :
          (request[r].status # None /\ isExpired(request[r], now))
          => isExpired(request'[r], now')
     /\ \A p \in Procs :
          ExtendAccepted(p)
          => /\ request[procs'[p].rid].status = "pending"
             /\ ~isExpired(request[procs'[p].rid], now)]_vars


(* ---------------------------------------------------------------------- *)
(* C36: every claimed entity can still complete.  A Request or a Donation *)
(* becomes delivered only through a Delivery bound to it, so a Request    *)
(* put in accepted_by_ngo by accept and a Donation put in assigned_to_ngo *)
(* by assign-ngo, neither bound to a Delivery yet, must be taken by the   *)
(* create of the NGO that holds them.                                     *)
BoundRequest(r) == \E i \in DeliveryIds : delivery[i].request = r

BoundDonation(d) == \E i \in DeliveryIds : delivery[i].donation = d

HeldRequest(r, n) ==
  /\ request[r].status = "accepted_by_ngo"
  /\ request[r].acceptedByNgo = n
  /\ ~BoundRequest(r)
  /\ ~isExpired(request[r], now)

HeldDonation(d, n) ==
  /\ donation[d].status = "assigned_to_ngo"
  /\ donation[d].assignedNGO = n
  /\ ~BoundDonation(d)

C36_ClaimedCanComplete ==
  [][\A p \in Procs :
       /\ ( /\ procs[p].pc = "create_findRequest"
            /\ procs'[p] # procs[p]
            /\ HeldRequest(procs[p].rid, procs[p].actor) )
          => procs'[p].pc = "create_saveDelivery"
       /\ ( /\ procs[p].pc = "idle"
            /\ procs'[p].op = "create"
            /\ HeldDonation(procs'[p].did, procs'[p].actor) )
          => procs'[p].pc = "create_findRequest"]_vars


(* ---------------------------------------------------------------------- *)
(* C37: every Delivery that is not cancelled references a Donation and a  *)
(* Request that are still in the store: a hard delete never removes an    *)
(* entity claimed by a live Delivery, also when it runs beside a create.  *)
C37_LiveDeliveryRefsStored ==
  \A i \in DeliveryIds :
    delivery[i].deliveryStatus # "cancelled"
    => /\ donation[delivery[i].donation].status # None
       /\ request[delivery[i].request].status # None


(* ---------------------------------------------------------------------- *)
(* C38: a donor's totalDonations equals the number of that donor's        *)
(* Donations in the store, and a requester's totalRequests likewise;      *)
(* neither counter is ever negative, also when two delete calls on the    *)
(* same entity run side by side.                                          *)
StoredDonations(o) ==
  Cardinality({d \in DonationIds : donation[d].status # None /\ donation[d].donor = o})

StoredRequests(u) ==
  Cardinality({r \in RequestIds : request[r].status # None /\ request[r].requester = u})

Deleting(p) == procs[p].pc \in {"donationDelete_dec", "requestDelete_dec"}

C38_CountersMatchStore ==
  /\ \A o \in Donors : totalDonations[o] >= 0
  /\ \A u \in Requesters : totalRequests[u] >= 0
  /\ (\A p \in Procs : ~Deleting(p))
     => /\ \A o \in Donors : totalDonations[o] = StoredDonations(o)
        /\ \A u \in Requesters : totalRequests[u] = StoredRequests(u)


(* ---------------------------------------------------------------------- *)
(* C39: rating points are credited at most once per Delivery: a repeated  *)
(* rating submission for the same delivered Delivery does not raise the   *)
(* donor's, the NGO's or the requester's points beyond the first award.   *)
(* The points of the three users come from one Delivery here, so one     *)
(* award leaves the requester with at most RatingReward, the donor with   *)
(* at most one rating and the NGO with at most pointsEarned and a rating. *)
C39_RatingCreditedOnce ==
  \A i \in DeliveryIds :
    /\ points[delivery[i].requester] <= RatingReward
    /\ points[delivery[i].donor] <= MaxRating
    /\ points[delivery[i].ngo] <= delivery[i].pointsEarned + MaxRating

====
